---------------------------- MODULE Spec2Model ----------------------------
(***************************************************************************)
(* Prolix backend: the drift engine, the narration service, the grounding  *)
(* service and the /generate and /deepen handlers, as state machines.      *)
(*                                                                         *)
(* Strings the program takes apart (split, replace, join, substring) are   *)
(* modelled as sequences of tokens: a token is a whitespace character or a *)
(* run of non-whitespace characters.  Strings the program only compares    *)
(* are TLA+ strings.                                                       *)
(***************************************************************************)
EXTENDS Integers, Sequences, FiniteSets, TLC

VARIABLES
    recent_dark,        \* DriftEngine.recent_dark: deque[bool], maxlen 20
    recent_attractors,  \* DriftEngine.recent_attractors: deque[str], maxlen 3
    drift_last,         \* the last DriftEngine call made directly: arguments and result
    store,              \* TraceStore: the rows of table "traces", in insertion order
    llm_configured,     \* NarrationService.llm_client is not None
    api_last,           \* the last /generate or /deepen call: arguments and response
    narr_last,          \* the last NarrationService.narrate call: arguments, backend calls, result
    ground_last,        \* the last GroundingService.ground call: arguments and result
    plan_calls,         \* how many DriftEngine.plan calls have returned since construction
    in_flight,          \* per worker thread: where its /deepen request stands in the drift engine
    stage_last          \* the last generate_outline, generate_prose_stage2 or
                        \* ChatCompletionLLMClient.generate call: arguments and result

vars == <<recent_dark, recent_attractors, drift_last, store, llm_configured,
          api_last, narr_last, ground_last, plan_calls, in_flight, stage_last>>

None == "None"

\* None where the program holds an int (a status code) or a UUID
NoCode == 0
NoId == 0

----------------------------------------------------------------------------
(* Text: sequences of tokens.                                              *)

SP == " "
NL == "\n"
CR == "\r"
TAB == "\t"
Whitespace == {SP, NL, CR, TAB}

IsSpace(tok) == tok \in Whitespace

\* str.replace("\n", " ")
ReplaceNewlines(text) == [i \in DOMAIN text |-> IF text[i] = NL THEN SP ELSE text[i]]

\* the indices at which a word of str.split() starts
WordStarts(text) ==
    {i \in DOMAIN text : ~IsSpace(text[i]) /\ (i = 1 \/ IsSpace(text[i - 1]))}

\* len(str.split())
WordCount(text) == Cardinality(WordStarts(text))

\* what token i contributes to " ".join(str.split()), first being where the first word
\* starts: nothing for whitespace, a space and the token at the start of a later word,
\* the token itself otherwise
JoinPiece(text, i, first) ==
    IF IsSpace(text[i]) THEN <<>>
    ELSE IF i > first /\ IsSpace(text[i - 1]) THEN <<SP, text[i]>>
    ELSE <<text[i]>>

\* " ".join(str.split()) over the tokens lo..hi
RECURSIVE JoinWords(_, _, _, _)
JoinWords(text, lo, hi, first) ==
    IF lo > hi THEN <<>>
    ELSE IF lo = hi THEN JoinPiece(text, lo, first)
    ELSE LET mid == (lo + hi) \div 2
         IN JoinWords(text, lo, mid, first) \o JoinWords(text, mid + 1, hi, first)

\* " ".join(str.split())
SplitJoin(text) ==
    IF WordStarts(text) = {} THEN <<>>
    ELSE JoinWords(text, 1, Len(text),
                   CHOOSE i \in WordStarts(text) : \A j \in WordStarts(text) : i <= j)

\* substring test for a literal that is one token of the text
Contains(text, literal) == \E i \in DOMAIN text : text[i] = literal


----------------------------------------------------------------------------
(* NarrationService (services/narration.py).                               *)

MinWords == 250
MaxWords == 350
MaxAttempts == 4

\* NarrationService._normalize_output
NormalizeOutput(text) == SplitJoin(ReplaceNewlines(text))

\* _is_valid_output with a fault: the upper word bound is not tested
IsValidOutputNoUpperBound(text) ==
    IF Contains(text, NL) \/ Contains(text, CR) THEN FALSE
    ELSE MinWords <= WordCount(text)

\* NarrationService._is_valid_output
IsValidOutput(text) ==
    IF Contains(text, NL) \/ Contains(text, CR) THEN FALSE
    ELSE MinWords <= WordCount(text) /\ WordCount(text) <= MaxWords

SafetyModeMarker == "Safety mode is active"

SafetyFallbackText ==
  <<
    "At", SP, "the", SP, "tapped", SP, "point,", SP, "the", SP, "scene", SP, "resists", SP,
    "becoming", SP, "a", SP, "dossier", SP, "and", SP, "stays", SP, "an", SP, "object", SP,
    "among", SP, "other", SP, "objects,", SP, "where", SP, "edge,", SP, "glare,", SP, "texture,",
    SP, "and", SP, "motion", SP, "are", SP, "enough", SP, "to", SP, "trigger", SP, "recognition",
    SP, "without", SP, "granting", SP, "recognition", SP, "authority", SP, "over", SP, "a", SP,
    "person.", SP, "The", SP, "frame", SP, "carries", SP, "the", SP, "old", SP, "fantasy", SP,
    "that", SP, "naming", SP, "is", SP, "neutral,", SP, "but", SP, "each", SP, "naming", SP,
    "system", SP, "drags", SP, "a", SP, "registry", SP, "behind", SP, "it,", SP, "and", SP, "each",
    SP, "registry", SP, "quietly", SP, "asks", SP, "who", SP, "can", SP, "be", SP, "tracked,", SP,
    "misread,", SP, "over-policed,", SP, "or", SP, "allowed", SP, "to", SP, "disappear", SP,
    "from", SP, "view.", SP, "Industrial", SP, "optics", SP, "trained", SP, "devices", SP, "to",
    SP, "sort", SP, "faces,", SP, "vehicles,", SP, "and", SP, "habits", SP, "as", SP, "if", SP,
    "identity", SP, "were", SP, "a", SP, "stable", SP, "surface", SP, "feature,", SP, "yet", SP,
    "perception", SP, "at", SP, "scale", SP, "behaves", SP, "more", SP, "like", SP, "weather", SP,
    "than", SP, "law,", SP, "swirling", SP, "through", SP, "thresholds,", SP, "lens", SP, "noise,",
    SP, "compression", SP, "artifacts,", SP, "transmission", SP, "standards,", SP, "and", SP,
    "institutional", SP, "appetite.", SP, "What", SP, "appears", SP, "like", SP, "certainty", SP,
    "dissolves", SP, "into", SP, "confidence", SP, "scores,", SP, "dashboard", SP, "defaults,", SP,
    "procurement", SP, "choices,", SP, "and", SP, "procedural", SP, "habits", SP, "that", SP,
    "mimic", SP, "judgment", SP, "while", SP, "deferring", SP, "responsibility,", SP, "then", SP,
    "circulate", SP, "through", SP, "staffing", SP, "policy,", SP, "street", SP, "design,", SP,
    "court", SP, "language,", SP, "and", SP, "media", SP, "myth.", SP, "Anonymity", SP, "in", SP,
    "this", SP, "setting", SP, "is", SP, "not", SP, "secrecy", SP, "for", SP, "its", SP, "own", SP,
    "sake", SP, "but", SP, "a", SP, "negotiated", SP, "border", SP, "where", SP, "people", SP,
    "refuse", SP, "forced", SP, "legibility,", SP, "and", SP, "where", SP, "care", SP, "means", SP,
    "reducing", SP, "extractive", SP, "attention", SP, "rather", SP, "than", SP, "improving", SP,
    "capture", SP, "rates.", SP, "The", SP, "ethics", SP, "of", SP, "looking", SP, "therefore", SP,
    "begins", SP, "before", SP, "identification,", SP, "continues", SP, "through", SP,
    "uncertainty,", SP, "and", SP, "returns", SP, "attention", SP, "to", SP, "atmosphere,", SP,
    "grain,", SP, "and", SP, "shared", SP, "vulnerability,", SP, "reminding", SP, "us", SP, "that",
    SP, "a", SP, "humane", SP, "image", SP, "can", SP, "hold", SP, "context", SP, "without", SP,
    "converting", SP, "a", SP, "life", SP, "into", SP, "searchable", SP, "inventory,", SP, "and",
    SP, "keeps", SP, "accountability", SP, "centered", SP, "on", SP, "systems", SP, "rather", SP,
    "than", SP, "on", SP, "biometric", SP, "shortcuts", SP, "that", SP, "pretend", SP, "context",
    SP, "can", SP, "be", SP, "reduced", SP, "to", SP, "a", SP, "label,", SP, "even", SP, "when",
    SP, "systems", SP, "claim", SP, "neutrality", SP, "through", SP, "polished", SP, "interfaces",
    SP, "and", SP, "technical", SP, "jargon", SP, "that", SP, "hides", SP, "human", SP, "stakes,",
    SP, "lived", SP, "histories,", SP, "and", SP, "unequal", SP, "risk."
  >>

PlainFallbackText ==
  <<
    "The", SP, "tapped", SP, "object", SP, "appears", SP, "ordinary", SP, "at", SP, "first,", SP,
    "yet", SP, "the", SP, "pipeline", SP, "context", SP, "makes", SP, "it", SP, "read", SP, "like",
    SP, "a", SP, "junction", SP, "where", SP, "material", SP, "history,", SP, "social", SP,
    "protocol,", SP, "and", SP, "computational", SP, "attention", SP, "meet", SP, "at", SP,
    "once,", SP, "pulling", SP, "the", SP, "eye", SP, "from", SP, "surface", SP, "detail", SP,
    "into", SP, "process", SP, "and", SP, "from", SP, "process", SP, "into", SP, "consequence.",
    SP, "Its", SP, "conceptual", SP, "path", SP, "suggests", SP, "a", SP, "relay", SP, "rather",
    SP, "than", SP, "a", SP, "single", SP, "origin,", SP, "with", SP, "each", SP, "hop", SP,
    "adding", SP, "a", SP, "different", SP, "pressure,", SP, "from", SP, "extraction", SP, "and",
    SP, "fabrication", SP, "to", SP, "routing,", SP, "maintenance,", SP, "and", SP,
    "interpretation,", SP, "so", SP, "the", SP, "thing", SP, "in", SP, "frame", SP, "becomes", SP,
    "a", SP, "local", SP, "interface", SP, "for", SP, "distant", SP, "infrastructures", SP, "that",
    SP, "rarely", SP, "appear", SP, "together.", SP, "The", SP, "selected", SP, "vector", SP,
    "domain", SP, "amplifies", SP, "that", SP, "shift", SP, "because", SP, "domain", SP,
    "language", SP, "converts", SP, "local", SP, "texture", SP, "into", SP, "broader", SP,
    "questions", SP, "about", SP, "thresholds,", SP, "costs,", SP, "and", SP, "feedback", SP,
    "loops,", SP, "and", SP, "those", SP, "abstractions", SP, "refuse", SP, "to", SP, "stay", SP,
    "abstract", SP, "when", SP, "translated", SP, "back", SP, "into", SP, "labor", SP,
    "schedules,", SP, "transit", SP, "delays,", SP, "procurement", SP, "standards,", SP, "and", SP,
    "environmental", SP, "residue.", SP, "Top", SP, "retrieval", SP, "snippets", SP, "reinforce",
    SP, "the", SP, "pattern", SP, "by", SP, "naming", SP, "concrete", SP, "frictions,", SP,
    "energetic", SP, "tolls,", SP, "and", SP, "institutional", SP, "assumptions", SP, "that", SP,
    "sit", SP, "behind", SP, "simple", SP, "acts", SP, "of", SP, "seeing", SP, "and", SP, "using,",
    SP, "including", SP, "what", SP, "gets", SP, "measured,", SP, "what", SP, "gets", SP,
    "discarded,", SP, "and", SP, "which", SP, "uncertainties", SP, "are", SP, "quietly", SP,
    "normalized.", SP, "As", SP, "attention", SP, "widens,", SP, "the", SP, "object", SP, "stops",
    SP, "behaving", SP, "like", SP, "an", SP, "isolated", SP, "noun", SP, "and", SP, "starts", SP,
    "behaving", SP, "like", SP, "a", SP, "verb", SP, "in", SP, "a", SP, "long", SP, "sentence", SP,
    "about", SP, "coordination,", SP, "where", SP, "chemistry,", SP, "logistics,", SP, "interface",
    SP, "conventions,", SP, "and", SP, "inherited", SP, "metaphors", SP, "keep", SP, "rewriting",
    SP, "one", SP, "another", SP, "across", SP, "scales.", SP, "By", SP, "the", SP, "time", SP,
    "the", SP, "paragraph", SP, "closes,", SP, "observation", SP, "has", SP, "become", SP,
    "participatory:", SP, "the", SP, "object", SP, "remains", SP, "present,", SP, "but", SP, "it",
    SP, "now", SP, "carries", SP, "a", SP, "visible", SP, "infrastructure", SP, "of", SP,
    "decisions,", SP, "constraints,", SP, "and", SP, "consequences", SP, "that", SP, "continues",
    SP, "unfolding", SP, "after", SP, "the", SP, "frame,", SP, "asking", SP, "the", SP, "viewer",
    SP, "to", SP, "treat", SP, "looking", SP, "as", SP, "involvement", SP, "rather", SP, "than",
    SP, "distance,", SP, "while", SP, "the", SP, "chain", SP, "of", SP, "interpretation", SP,
    "keeps", SP, "extending", SP, "into", SP, "governance,", SP, "maintenance", SP, "budgets,", SP,
    "and", SP, "the", SP, "stories", SP, "communities", SP, "tell", SP, "about", SP, "what", SP,
    "technology", SP, "is", SP, "allowed", SP, "to", SP, "notice."
  >>

\* the two paragraphs _local_fallback can return, evaluated once
NormalizedFallbackText ==
    [safety \in BOOLEAN |->
        NormalizeOutput(IF safety THEN SafetyFallbackText ELSE PlainFallbackText)]

\* _local_fallback with a fault: the safety paragraph whatever the prompt says
LocalFallbackAlwaysSafety(system_prompt) ==
    NormalizedFallbackText[TRUE]

\* NarrationService._local_fallback
LocalFallback(system_prompt) ==
    NormalizedFallbackText[Contains(system_prompt, SafetyModeMarker)]

\* sep.join(parts) for a sequence of texts
RECURSIVE JoinTexts(_, _)
JoinTexts(sep, parts) ==
    IF parts = <<>> THEN <<>>
    ELSE IF Len(parts) = 1 THEN parts[1]
    ELSE parts[1] \o sep \o JoinTexts(sep, Tail(parts))

Take(s, n) == SubSeq(s, 1, IF Len(s) < n THEN Len(s) ELSE n)

PromptConstraints ==
    << "Write exactly one paragraph between 250 and 350 words. ",
       "No newlines. No bullet points. Do not include prefaces, titles, or markdown." >>

SafetySystemPrompt ==
    << "You are a critical writing assistant for a visual analysis system. ",
       SafetyModeMarker,
       ": never identify or profile people or license plates. ",
       "Keep the prose focused on ethics of classification, ambiguity, and non-identifying observation. " >>
    \o PromptConstraints

PlainSystemPrompt ==
    << "You are a prose generator for a conceptual camera essay pipeline. ",
       "Ground your paragraph in concrete material/process/system transitions, then widen to broader implications. " >>
    \o PromptConstraints

\* _build_prompts with a fault: the safety user prompt lists the scene descriptors too
BuildPromptsSafetyWithDescriptors(object_label, descriptors, vector_domain, path, snippets, safety_redirect, ending_type) ==
    LET path_hops == [i \in DOMAIN path |-> <<path[i].node, " (", path[i].rel, ")">>]
        top_snippets == Take(snippets, 3)
        snippets_block == [i \in DOMAIN top_snippets |->
                            <<top_snippets[i].title, ": ", top_snippets[i].excerpt>>]
    IN << (IF safety_redirect THEN SafetySystemPrompt ELSE PlainSystemPrompt),
          << <<"Object label: ">>, object_label,
             <<". ", "Scene descriptors: ">>, Take(descriptors, 4),
             <<". ", "Selected vector domain: ", vector_domain, ". ", "Concept path hops: ">>,
             path_hops,
             <<". ", "Top retrieval snippets: ">>, snippets_block,
             <<". ", "Ending style target: ", ending_type, ".">> >> >>

\* NarrationService._build_prompts: <<system_prompt, user_prompt>>.  The user prompt is
\* kept as the sequence of the parts its f-strings put together; a joined list
\* (" | ".join, " || ".join, ", ".join) is kept as the list of its items.
BuildPrompts(object_label, descriptors, vector_domain, path, snippets, safety_redirect, ending_type) ==
    LET path_hops == [i \in DOMAIN path |-> <<path[i].node, " (", path[i].rel, ")">>]
        top_snippets == Take(snippets, 3)
        snippets_block == [i \in DOMAIN top_snippets |->
                            <<top_snippets[i].title, ": ", top_snippets[i].excerpt>>]
    IN IF safety_redirect
       THEN << SafetySystemPrompt,
               << <<"Object label: ">>, object_label,
                  <<". ", "Vector domain: ", vector_domain, ". ", "Concept path hops: ">>,
                  path_hops,
                  <<". ", "Retrieval snippets: ">>, snippets_block,
                  <<". ", "Include language that reframes naming systems and anonymity. ",
                    "Ending style target: ", ending_type, ".">> >> >>
       ELSE << PlainSystemPrompt,
               << <<"Object label: ">>, object_label,
                  <<". ", "Scene descriptors: ">>, Take(descriptors, 4),
                  <<". ", "Selected vector domain: ", vector_domain, ". ", "Concept path hops: ">>,
                  path_hops,
                  <<". ", "Top retrieval snippets: ">>, snippets_block,
                  <<". ", "Ending style target: ", ending_type, ".">> >> >>

CorrectiveInstruction ==
    << " Previous output violated constraints. ",
       "Regenerate with one paragraph only and 250-350 words, no newlines." >>

\* the texts the modelled generation backend can return: n words separated by sep
WordsText(n, sep) == [i \in 1..(2 * n - 1) |-> IF i % 2 = 1 THEN "word" ELSE sep]

ShortWords == 40

\* the texts the modelled backend can return, by name
BackendTextNames == {"short", "under", "newlines", "crlf", "over"}

BackendText ==
    [name \in BackendTextNames |->
        CASE name = "short" -> WordsText(ShortWords, SP)
          [] name = "under" -> WordsText(MinWords - 1, SP)
          [] name = "newlines" -> <<NL, TAB>> \o WordsText(MinWords, NL) \o <<NL>>
          [] name = "crlf" -> <<SP>> \o WordsText(MaxWords, CR) \o <<CR, NL>>
          [] name = "over" -> WordsText(MaxWords + 1, SP)]

\* _normalize_output and _is_valid_output over the backend's texts, evaluated once per text
NormalizedBackendText == [name \in BackendTextNames |-> NormalizeOutput(BackendText[name])]
ValidBackendText == [name \in BackendTextNames |-> IsValidOutput(NormalizedBackendText[name])]

\* what one llm_client.generate call does: return a text, or raise
TextOutcome(name) == [kind |-> "text", text |-> name, error_type |-> None, status_code |-> NoCode]
RaiseOutcome(error_type, status_code) ==
    [kind |-> "raise", text |-> None, error_type |-> error_type, status_code |-> status_code]

BackendOutcomes ==
    {TextOutcome(name) : name \in BackendTextNames}
        \cup {RaiseOutcome("openai_401", 401), RaiseOutcome("RuntimeError", NoCode)}

\* the loop with a fault: one iteration fewer (range(3))
RECURSIVE GenerateLoopOneShort(_, _, _, _, _)
GenerateLoopOneShort(script, attempt, system_prompt, user_prompt, calls) ==
    IF attempt > MaxAttempts - 1
    THEN [status |-> "returned", paragraph |-> LocalFallback(system_prompt), source |-> "fallback",
          error_type |-> None, status_code |-> NoCode, calls |-> calls]
    ELSE LET sent == Append(calls, [system_prompt |-> system_prompt, user_prompt |-> user_prompt])
             raw == script[attempt]
         IN IF raw.kind = "raise"
            THEN [status |-> "raised", paragraph |-> <<>>, source |-> None,
                  error_type |-> raw.error_type, status_code |-> raw.status_code, calls |-> sent]
            ELSE LET normalized == NormalizedBackendText[raw.text]
                 IN IF ValidBackendText[raw.text]
                    THEN [status |-> "returned", paragraph |-> normalized, source |-> "backend",
                          error_type |-> None, status_code |-> NoCode, calls |-> sent]
                    ELSE GenerateLoopOneShort(script, attempt + 1, system_prompt,
                                              Append(user_prompt, CorrectiveInstruction), sent)

\* the for loop of _generate_with_validation from its attempt-th iteration on;
\* script[k] is what the k-th llm_client.generate call of this narrate does
RECURSIVE GenerateLoop(_, _, _, _, _)
GenerateLoop(script, attempt, system_prompt, user_prompt, calls) ==
    IF attempt > MaxAttempts
    THEN [status |-> "returned", paragraph |-> LocalFallback(system_prompt), source |-> "fallback",
          error_type |-> None, status_code |-> NoCode, calls |-> calls]
    ELSE LET sent == Append(calls, [system_prompt |-> system_prompt, user_prompt |-> user_prompt])
             raw == script[attempt]
         IN IF raw.kind = "raise"
            THEN [status |-> "raised", paragraph |-> <<>>, source |-> None,
                  error_type |-> raw.error_type, status_code |-> raw.status_code, calls |-> sent]
            ELSE LET normalized == NormalizedBackendText[raw.text]
                 IN IF ValidBackendText[raw.text]
                    THEN [status |-> "returned", paragraph |-> normalized, source |-> "backend",
                          error_type |-> None, status_code |-> NoCode, calls |-> sent]
                    ELSE GenerateLoop(script, attempt + 1, system_prompt,
                                      Append(user_prompt, CorrectiveInstruction), sent)

\* NarrationService._generate_with_validation
GenerateWithValidation(has_client, script, system_prompt, user_prompt) ==
    IF ~has_client
    THEN [status |-> "returned", paragraph |-> LocalFallback(system_prompt), source |-> "fallback",
          error_type |-> None, status_code |-> NoCode, calls |-> <<>>]
    ELSE GenerateLoop(script, 1, system_prompt, user_prompt, <<>>)

\* random.random() < 0.4
EndingTypes == {"SUSPEND", "RETURN"}

\* narrate with a fault: the ending type follows the validation outcome
NarrateResultEndingByOutcome(has_client, script, object_label, descriptors, vector_domain, path, snippets, safety_redirect, ending_type) ==
    LET prompts == BuildPrompts(object_label, descriptors, vector_domain, path, snippets,
                                safety_redirect, ending_type)
        gen == GenerateWithValidation(has_client, script, prompts[1], prompts[2])
    IN [status |-> gen.status, paragraph_text |-> gen.paragraph, path_used |-> path,
        ending_type |-> IF gen.status # "returned" THEN None
                        ELSE IF gen.source = "fallback" THEN "SUSPEND" ELSE ending_type,
        source |-> gen.source, error_type |-> gen.error_type, status_code |-> gen.status_code,
        calls |-> gen.calls]

\* NarrationService.narrate, given its ending draw and the backend's behaviour
NarrateResult(has_client, script, object_label, descriptors, vector_domain, path, snippets, safety_redirect, ending_type) ==
    LET prompts == BuildPrompts(object_label, descriptors, vector_domain, path, snippets,
                                safety_redirect, ending_type)
        gen == GenerateWithValidation(has_client, script, prompts[1], prompts[2])
    IN [status |-> gen.status, paragraph_text |-> gen.paragraph, path_used |-> path,
        ending_type |-> IF gen.status = "returned" THEN ending_type ELSE None,
        source |-> gen.source, error_type |-> gen.error_type, status_code |-> gen.status_code,
        calls |-> gen.calls]

----------------------------------------------------------------------------
(* models.py: relations, domains, hops.                                    *)

ALLOWED_RELATIONS ==
    { "is_a", "made_of", "derived_from", "enabled_by", "resembles", "computed_by",
      "constrained_by", "historically_entangled_with", "scaled_to", "embedded_in",
      "feeds", "mutates_into", "stabilized_by", "narrated_as" }

VectorDomain ==
    { "THERMODYNAMICS_ENTROPY", "CHEMISTRY_TRANSFORMATION", "PHYSICS_PARADOXES", "COSMOLOGY",
      "DISTRIBUTED_INTELLIGENCE", "EVOLUTIONARY_SIGNALING", "PLANT_AGENCY", "FEEDBACK_CONTROL",
      "EMERGENCE_OBSERVER", "INFRASTRUCTURE_LOGISTICS", "OBSCURE_HISTORY_AGENTS", "HERESY_SECTS",
      "MYSTERIOUS_EVENTS", "COSMOLOGY_MYTH", "CULT_PRACTICES" }

\* Hop(node=..., rel=...); construction fails on a relation outside ALLOWED_RELATIONS
\* (Hop.rel_allowed), which HopsConstructible tests for a list of hops
Hop(node, rel) == [node |-> node, rel |-> rel]

HopsConstructible(hops) == \A i \in DOMAIN hops : hops[i].rel \in ALLOWED_RELATIONS

----------------------------------------------------------------------------
(* DriftEngine (services/drift.py).                                        *)

DARK_DOMAINS == {"MYSTERIOUS_EVENTS"}

\* DOMAIN_WEIGHTS, in thousandths
DOMAIN_WEIGHTS ==
    [d \in VectorDomain |->
        CASE d \in {"THERMODYNAMICS_ENTROPY", "CHEMISTRY_TRANSFORMATION", "DISTRIBUTED_INTELLIGENCE",
                    "EVOLUTIONARY_SIGNALING", "FEEDBACK_CONTROL", "INFRASTRUCTURE_LOGISTICS"} -> 1000
          [] d = "PHYSICS_PARADOXES" -> 900
          [] d \in {"PLANT_AGENCY", "EMERGENCE_OBSERVER", "OBSCURE_HISTORY_AGENTS"} -> 800
          [] d \in {"HERESY_SECTS", "COSMOLOGY_MYTH"} -> 700
          [] d = "CULT_PRACTICES" -> 600
          [] d = "COSMOLOGY" -> 500
          [] d = "MYSTERIOUS_EVENTS" -> 350]

\* ATTRACTORS.get(domain, [])
ATTRACTORS ==
    [d \in VectorDomain |->
        CASE d = "HERESY_SECTS" -> <<"Bogomils">>
          [] d = "PHYSICS_PARADOXES" -> <<"quantum suicide", "the number 137", "holographic principle">>
          [] d = "COSMOLOGY" -> <<"holographic principle">>
          [] d = "PLANT_AGENCY" -> <<"corn is growing us">>
          [] d = "COSMOLOGY_MYTH" -> <<"Egyptian cosmology motifs">>
          [] d = "DISTRIBUTED_INTELLIGENCE" -> <<"distributed brains of octopi">>
          [] d = "OBSCURE_HISTORY_AGENTS" ->
                <<"Napoleonic-era triple-agent courier networks", "pseudo-Frederick">>
          [] d = "MYSTERIOUS_EVENTS" -> <<"Pauli Effect">>
          [] d = "CULT_PRACTICES" -> <<"pre-modern bear cults">>
          [] OTHER -> <<>>]

DarkWindowLen == 20
AttractorWindowLen == 3

\* the append with a fault: a full deque drops its newest entry for the new one
DequeAppendOverNewest(q, x, maxlen) ==
    IF Len(q) < maxlen THEN Append(q, x) ELSE Append(SubSeq(q, 1, maxlen - 1), x)

\* deque(maxlen=n).append(x)
DequeAppend(q, x, maxlen) ==
    IF Len(q) < maxlen THEN Append(q, x) ELSE Append(Tail(q), x)

Range(s) == {s[i] : i \in DOMAIN s}

\* sum(self.recent_dark)
DarkCount(rd) == Cardinality({i \in DOMAIN rd : rd[i]})

DarkRatioPercent == 35
DampingTenths == 3

\* dark_ratio > 0.35, with dark_ratio = sum(recent_dark) / len(recent_dark), or 0 when empty
DarkRatioExceeded(rd) ==
    IF rd = <<>> THEN FALSE
    ELSE DarkCount(rd) * 100 > DarkRatioPercent * Len(rd)

\* the weights with a fault: previous stays among the candidates
ChooseDomainWeightsKeepPrevious(previous, rd) ==
    [d \in VectorDomain |->
        IF DarkRatioExceeded(rd) /\ d \in DARK_DOMAINS
        THEN (DOMAIN_WEIGHTS[d] * DampingTenths) \div 10
        ELSE DOMAIN_WEIGHTS[d]]

\* the weights choose_domain hands to random.choices, in thousandths
ChooseDomainWeights(previous, rd) ==
    [d \in VectorDomain \ {previous} |->
        IF DarkRatioExceeded(rd) /\ d \in DARK_DOMAINS
        THEN (DOMAIN_WEIGHTS[d] * DampingTenths) \div 10
        ELSE DOMAIN_WEIGHTS[d]]

\* DriftEngine.choose_domain: the domains random.choices can return
ChooseDomain(previous, rd) ==
    LET weights == ChooseDomainWeights(previous, rd)
    IN {d \in DOMAIN weights : weights[d] > 0}

\* domain.value.lower().replace("_", " ")
DomainSignal ==
    [d \in VectorDomain |->
        CASE d = "THERMODYNAMICS_ENTROPY" -> "thermodynamics entropy"
          [] d = "CHEMISTRY_TRANSFORMATION" -> "chemistry transformation"
          [] d = "PHYSICS_PARADOXES" -> "physics paradoxes"
          [] d = "COSMOLOGY" -> "cosmology"
          [] d = "DISTRIBUTED_INTELLIGENCE" -> "distributed intelligence"
          [] d = "EVOLUTIONARY_SIGNALING" -> "evolutionary signaling"
          [] d = "PLANT_AGENCY" -> "plant agency"
          [] d = "FEEDBACK_CONTROL" -> "feedback control"
          [] d = "EMERGENCE_OBSERVER" -> "emergence observer"
          [] d = "INFRASTRUCTURE_LOGISTICS" -> "infrastructure logistics"
          [] d = "OBSCURE_HISTORY_AGENTS" -> "obscure history agents"
          [] d = "HERESY_SECTS" -> "heresy sects"
          [] d = "MYSTERIOUS_EVENTS" -> "mysterious events"
          [] d = "COSMOLOGY_MYTH" -> "cosmology myth"
          [] d = "CULT_PRACTICES" -> "cult practices"]

\* domain_signal[:10] in hop.node, for the tokens a chain holds after its first two
\* hops: the domain's own signal, its attractors and the fixed labels.  Of the
\* attractors only these two contain the first ten characters of their domain's
\* signal ("cosmology " and "distribute").
SignalPrefixInToken(domain, tok) ==
    \/ tok = DomainSignal[domain]
    \/ domain = "COSMOLOGY_MYTH" /\ tok = "Egyptian cosmology motifs"
    \/ domain = "DISTRIBUTED_INTELLIGENCE" /\ tok = "distributed brains of octopi"

SignalPrefixIn(domain, node) == \E i \in DOMAIN node : SignalPrefixInToken(domain, node[i])

\* the repair loop with a fault: the chain is cut down to the hops it visits
\* (chain = chain[3:len(chain) - 1])
RepairChainSliced(chain, domain) ==
    [k \in 1..(Len(chain) - 4) |->
        IF chain[k + 3].rel # "scaled_to"
        THEN Hop(<<DomainSignal[domain], " ">> \o chain[k + 3].node, chain[k + 3].rel)
        ELSE chain[k + 3]]

\* the repair loop with a fault: for idx in range(2, len(chain))
RepairChainToTheEnd(chain, domain) ==
    [idx \in DOMAIN chain |->
        IF idx - 1 >= 2 /\ chain[idx].rel # "scaled_to"
        THEN Hop(<<DomainSignal[domain], " ">> \o chain[idx].node, chain[idx].rel)
        ELSE chain[idx]]

\* the repair loop of _validate: for idx in range(3, len(chain) - 1)
RepairChain(chain, domain) ==
    [idx \in DOMAIN chain |->
        IF idx - 1 >= 3 /\ idx - 1 < Len(chain) - 1 /\ chain[idx].rel # "scaled_to"
        THEN Hop(<<DomainSignal[domain], " ">> \o chain[idx].node, chain[idx].rel)
        ELSE chain[idx]]

\* commitment_ratio < 0.6, with commitment_ratio = domain_hits / max(1, len(chain[2:]))
CommitmentBelow(chain, domain) ==
    LET after == {i \in DOMAIN chain : i > 2}
        domain_hits == Cardinality({i \in after : SignalPrefixIn(domain, chain[i].node)})
        denom == IF Cardinality(after) < 1 THEN 1 ELSE Cardinality(after)
    IN domain_hits * 10 < 6 * denom

\* DriftEngine._validate: the error it raises, or the chain as it leaves it
Validate(chain, domain) ==
    IF ~(6 <= Len(chain) /\ Len(chain) <= 12)
    THEN [error |-> "Invalid hop count", chain |-> chain]
    ELSE IF ~(\E i \in DOMAIN chain : chain[i].rel = "scaled_to")
    THEN [error |-> "Missing scale shift", chain |-> chain]
    ELSE IF CommitmentBelow(chain, domain)
    THEN [error |-> None, chain |-> RepairChain(chain, domain)]
    ELSE [error |-> None, chain |-> chain]

\* the candidates with a fault: the recent attractors are not left out
AttractorCandidatesWholePool(domain, ra) ==
    {ATTRACTORS[domain][i] : i \in DOMAIN ATTRACTORS[domain]}

\* candidates of plan: the domain's attractors that are not in recent_attractors
AttractorCandidates(domain, ra) ==
    {ATTRACTORS[domain][i] : i \in DOMAIN ATTRACTORS[domain]} \ Range(ra)

\* random.choice(candidates) if candidates else None
AttractorChoices(domain, ra) ==
    IF AttractorCandidates(domain, ra) = {} THEN {None} ELSE AttractorCandidates(domain, ra)

\* the draw with a fault: random.randint(5, 10)
TruncationDrawsFromFive == 5..10

\* random.randint(8, 10)
TruncationDraws == 8..10

\* the chain plan builds before truncating it
PlanChain(anchor, domain, attractor) ==
    LET domain_signal == DomainSignal[domain]
    IN << Hop(anchor, "is_a"),
          Hop(anchor \o <<" substrate">>, "made_of"),
          Hop(<<"extraction and process chemistry">>, "derived_from"),
          Hop(<<domain_signal, " dynamics">>, "enabled_by"),
          Hop(<<domain_signal, " system behavior">>, "embedded_in"),
          Hop(<<"micro-to-macro scale inversion">>, "scaled_to"),
          Hop(<<domain_signal, " observer entanglement">>, "resembles"),
          Hop(<<domain_signal, " constraints">>, "constrained_by") >>
       \o (IF attractor # None THEN <<Hop(<<attractor>>, "historically_entangled_with")>> ELSE <<>>)
       \o <<Hop(<<"scene-level return signal">>, "feeds")>>

\* dark_flag with a fault: the membership test is negated
DarkFlagOutsideDarkDomains(domain, force_safe) == domain \notin DARK_DOMAINS /\ ~force_safe

\* dark_flag with a fault: force_safe is ignored
DarkFlagIgnoresForceSafe(domain, force_safe) == domain \in DARK_DOMAINS

\* dark_flag = domain in DARK_DOMAINS and not force_safe
DarkFlag(domain, force_safe) == domain \in DARK_DOMAINS /\ ~force_safe

\* DriftEngine.plan with attractor drawn by random.choice and n by random.randint:
\* the DriftPlan returned (or the error raised) and the two windows after the call
Plan(anchor, domain, force_safe, rd, ra, attractor, n) ==
    LET dark_flag == DarkFlag(domain, force_safe)
        chain == Take(PlanChain(anchor, domain, attractor), n)
        checked == Validate(chain, domain)
    IN IF ~HopsConstructible(PlanChain(anchor, domain, attractor))
       THEN [error |-> "Unsupported relation", vector_domain |-> domain, concept_path |-> <<>>,
             dark_flag |-> dark_flag, attractor |-> attractor,
             recent_dark |-> rd, recent_attractors |-> ra]
       ELSE IF checked.error # None
       THEN [error |-> checked.error, vector_domain |-> domain, concept_path |-> <<>>,
             dark_flag |-> dark_flag, attractor |-> attractor,
             recent_dark |-> rd, recent_attractors |-> ra]
       ELSE [error |-> None, vector_domain |-> domain, concept_path |-> checked.chain,
             dark_flag |-> dark_flag, attractor |-> attractor,
             recent_dark |-> DequeAppend(rd, dark_flag, DarkWindowLen),
             recent_attractors |-> IF attractor # None
                                   THEN DequeAppend(ra, attractor, AttractorWindowLen)
                                   ELSE ra]

----------------------------------------------------------------------------
(* TraceStore (db/storage.py) and RetrievalService (services/retrieval.py). *)

\* str(uuid) and UUID(str)
UuidStr(trace_id) == <<"uuid", trace_id>>
UuidOf(s) == s[2]

\* json.dumps([hop.model_dump() for hop in path]) and [Hop(**hop) for hop in json.loads(text)]
JsonDumpsHops(path) == [i \in DOMAIN path |-> <<"node", path[i].node, "rel", path[i].rel>>]
JsonLoadsHops(text) == [i \in DOMAIN text |-> Hop(text[i][2], text[i][4])]

\* the TraceRow that insert_trace builds from a TraceRecord
ToRow(record) ==
    [trace_id |-> UuidStr(record.trace_id),
     object_label |-> record.object_label,
     vector_domain |-> record.vector_domain,
     concept_path |-> JsonDumpsHops(record.concept_path),
     paragraph_text |-> record.paragraph_text,
     ending_type |-> record.ending_type,
     safety_flag |-> record.safety_flag,
     dark_flag |-> record.dark_flag]

\* the TraceRecord of get_trace with a fault: dark_flag is read from the safety_flag column
FromRowFlagsMixed(row) ==
    [trace_id |-> UuidOf(row.trace_id),
     object_label |-> row.object_label,
     vector_domain |-> row.vector_domain,
     concept_path |-> JsonLoadsHops(row.concept_path),
     paragraph_text |-> row.paragraph_text,
     ending_type |-> row.ending_type,
     safety_flag |-> row.safety_flag,
     dark_flag |-> row.safety_flag]

\* the TraceRecord that get_trace builds from a TraceRow
FromRow(row) ==
    [trace_id |-> UuidOf(row.trace_id),
     object_label |-> row.object_label,
     vector_domain |-> row.vector_domain,
     concept_path |-> JsonLoadsHops(row.concept_path),
     paragraph_text |-> row.paragraph_text,
     ending_type |-> row.ending_type,
     safety_flag |-> row.safety_flag,
     dark_flag |-> row.dark_flag]

\* get_trace's None
NoTrace ==
    [trace_id |-> NoId, object_label |-> <<>>, vector_domain |-> None, concept_path |-> <<>>,
     paragraph_text |-> <<>>, ending_type |-> None, safety_flag |-> FALSE, dark_flag |-> FALSE]

\* insert_trace with a fault: the newest row is replaced by the new one
InsertTraceOverNewest(rows, record) ==
    IF rows = <<>> THEN <<ToRow(record)>> ELSE [rows EXCEPT ![Len(rows)] = ToRow(record)]

\* TraceStore.insert_trace
InsertTrace(rows, record) == Append(rows, ToRow(record))

\* get_trace with a fault: an id no row has is answered with the newest row
GetTraceOrNewest(rows, trace_id) ==
    IF \E i \in DOMAIN rows : rows[i].trace_id = UuidStr(trace_id)
    THEN FromRow(rows[CHOOSE i \in DOMAIN rows : rows[i].trace_id = UuidStr(trace_id)])
    ELSE IF rows # <<>> THEN FromRow(rows[Len(rows)]) ELSE NoTrace

\* TraceStore.get_trace
GetTrace(rows, trace_id) ==
    IF \E i \in DOMAIN rows : rows[i].trace_id = UuidStr(trace_id)
    THEN FromRow(rows[CHOOSE i \in DOMAIN rows : rows[i].trace_id = UuidStr(trace_id)])
    ELSE NoTrace

\* uuid4(): an identifier no stored trace has
NewTraceId(rows) == Len(rows) + 1

\* RetrievalService.retrieve with self.docs == [] (no corpus directory): the built-in snippet
Retrieve(object_label, domain) ==
    << [title |-> "Entropy and prediction",
        excerpt |-> "Information processing is paid for in heat, delay, and substrate.",
        domain_tag |-> "THERMODYNAMICS_ENTROPY",
        source_id |-> "core-entropy"] >>

----------------------------------------------------------------------------
(* /generate and /deepen (main.py).                                        *)

\* _safety_path with a fault: the first hop names a fixed node, not the anchor
SafetyPathUnanchored(anchor) ==
    << Hop(<<"object">>, "is_a"),
       Hop(<<"pattern recognition">>, "enabled_by"),
       Hop(<<"classification thresholds">>, "constrained_by"),
       Hop(<<"institutional anonymity">>, "embedded_in"),
       Hop(<<"ethics of naming">>, "historically_entangled_with"),
       Hop(<<"scene-level return signal">>, "feeds") >>

\* _safety_path
SafetyPath(anchor) ==
    << Hop(anchor, "is_a"),
       Hop(<<"pattern recognition">>, "enabled_by"),
       Hop(<<"classification thresholds">>, "constrained_by"),
       Hop(<<"institutional anonymity">>, "embedded_in"),
       Hop(<<"ethics of naming">>, "historically_entangled_with"),
       Hop(<<"scene-level return signal">>, "feeds") >>

\* the HTTPException detail of generate's two except clauses
UpstreamErrorDetail(narration) ==
    IF narration.error_type \in {"openai_401", "missing_key", "upstream_error"}
    THEN [error_type |-> narration.error_type, upstream_status_code |-> narration.status_code]
    ELSE [error_type |-> "upstream_error", upstream_status_code |-> NoCode]

\* what a handler was called with: the grounding generate obtained for its image and
\* tap, or the trace_id of the DeepenRequest
NoRequest ==
    [trace_id |-> NoId, grounded |-> FALSE, object_label |-> <<>>,
     safety_face_or_plate |-> FALSE]

GenerateRequest(ground) ==
    [trace_id |-> NoId, grounded |-> ~ground.raised, object_label |-> ground.object_label,
     safety_face_or_plate |-> ground.safety_face_or_plate]

DeepenRequest(request_id) == [NoRequest EXCEPT !.trace_id = request_id]

ApiIdle ==
    [op |-> None, request |-> NoRequest, status_code |-> NoCode, error_type |-> None,
     upstream_status_code |-> NoCode, trace_id |-> NoId, paragraph_text |-> <<>>,
     narrate_called |-> FALSE, safety_redirect |-> FALSE, used_drift |-> FALSE,
     trace |-> NoTrace]

\* the response (or failure) of a handler, with what the handler passed to narrate and
\* whether it called the drift engine
ApiResponse(op, request, status_code, error_type, upstream, trace_id, paragraph, narrate_called, redirect, used_drift) ==
    [op |-> op, request |-> request, status_code |-> status_code, error_type |-> error_type,
     upstream_status_code |-> upstream, trace_id |-> trace_id, paragraph_text |-> paragraph,
     narrate_called |-> narrate_called, safety_redirect |-> redirect,
     used_drift |-> used_drift, trace |-> NoTrace]

\* a 200 response, with the TraceRecord the handler built and handed to insert_trace
Stored(response, trace) == [response EXCEPT !.trace = trace]

\* TraceRecord(...)
TraceRecord(trace_id, object_label, domain, concept_path, narration, safety_flag, dark_flag) ==
    [trace_id |-> trace_id, object_label |-> object_label, vector_domain |-> domain,
     concept_path |-> concept_path, paragraph_text |-> narration.paragraph_text,
     ending_type |-> narration.ending_type, safety_flag |-> safety_flag, dark_flag |-> dark_flag]

----------------------------------------------------------------------------
(* GroundingService (services/grounding.py).  Coordinates are in            *)
(* thousandths, confidences in hundredths.                                  *)

Min(a, b) == IF a < b THEN a ELSE b
Max(a, b) == IF a > b THEN a ELSE b

\* image bytes: None, b"", or bytes whose header gives (or fails to give) dimensions
ImageBytes(kind, width, height) == [kind |-> kind, width |-> width, height |-> height]

\* not image_bytes
ImageMissing(image) == image.kind \in {"none", "empty"}

\* _image_dimensions: the header's dimensions of a PNG or JPEG, (0, 0) otherwise
ImageDimensions(image) ==
    IF image.kind \in {"png", "jpeg"} THEN <<image.width, image.height>> ELSE <<0, 0>>

\* f"{n:.3f}" of a non-negative number of thousandths below ten
Pad3(n) ==
    IF n < 10 THEN "00" \o ToString(n) ELSE IF n < 100 THEN "0" \o ToString(n) ELSE ToString(n)

\* f"{v:.3f}"
Fixed3(v) ==
    LET a == IF v < 0 THEN -v ELSE v
    IN (IF v < 0 THEN "-" ELSE "") \o ToString(a \div 1000) \o "." \o Pad3(a % 1000)

CropRatioPercent == 45
MinCrop == 64

\* crop_around_tap: the error it raises, or the crop rectangle and the five facts
CropAroundTap(image, tap_x, tap_y) ==
    LET width == ImageDimensions(image)[1]
        height == ImageDimensions(image)[2]
        nx == Max(0, Min(1000, tap_x))
        ny == Max(0, Min(1000, tap_y))
        cx == (nx * width) \div 1000
        cy == (ny * height) \div 1000
        crop_w == Max(MinCrop, (width * CropRatioPercent) \div 100)
        crop_h == Max(MinCrop, (height * CropRatioPercent) \div 100)
        left == Max(0, Min(width - crop_w, cx - crop_w \div 2))
        top == Max(0, Min(height - crop_h, cy - crop_h \div 2))
        right == Min(width, left + crop_w)
        bottom == Min(height, top + crop_h)
    IN IF width <= 0 \/ height <= 0
       THEN [error |-> "invalid_image_dimensions", rect |-> <<>>, facts |-> <<>>]
       ELSE [error |-> None,
             rect |-> [x |-> left, y |-> top, w |-> right - left, h |-> bottom - top,
                       image_w |-> width, image_h |-> height],
             facts |-> << <<"crop", SP, "width", SP, ToString(right - left), SP, "px">>,
                          <<"crop", SP, "height", SP, ToString(bottom - top), SP, "px">>,
                          <<"tap", SP, "normalized", SP, "x", SP, Fixed3(nx)>>,
                          <<"tap", SP, "normalized", SP, "y", SP, Fixed3(ny)>>,
                          <<"object-adjacent", SP, "region", SP, "centered", SP, "on", SP,
                            "tap">> >>]

\* str.lower() of a token, for the tokens the modelled provider writes with capitals
LowerToken(tok) ==
    CASE tok = "Object-adjacent" -> "object-adjacent"
      [] tok = "Brushed" -> "brushed"
      [] tok = "Metal" -> "metal"
      [] tok = "You" -> "you"
      [] tok = "In" -> "in"
      [] tok = "The" -> "the"
      [] tok = "Its" -> "its"
      [] tok = "What" -> "what"
      [] tok = "At" -> "at"
      [] tok = "That" -> "that"
      [] OTHER -> tok

\* " ".join(item.lower().split())
NormalizeFact(item) == SplitJoin([i \in DOMAIN item |-> LowerToken(item[i])])

\* _dedupe_facts: the loop from item k on, out holding the items kept so far
RECURSIVE DedupeFrom(_, _, _)
DedupeFrom(items, k, out) ==
    IF k > Len(items) THEN out
    ELSE IF NormalizeFact(items[k]) = <<>>
            \/ \E j \in DOMAIN out : NormalizeFact(out[j]) = NormalizeFact(items[k])
    THEN DedupeFrom(items, k + 1, out)
    ELSE DedupeFrom(items, k + 1, Append(out, items[k]))

\* _dedupe_facts
DedupeFacts(items) == DedupeFrom(items, 1, <<>>)

\* word in " ".join(facts).lower(): a word without whitespace lies within one token
FactsMention(facts, words) ==
    \E i \in DOMAIN facts : \E k \in DOMAIN facts[i] : LowerToken(facts[i][k]) \in words

\* _guess_material, for facts whose tokens contain one of its words only as a whole token
GuessMaterial(facts) ==
    IF FactsMention(facts, {"rust", "metal"}) THEN "metal"
    ELSE IF FactsMention(facts, {"grain", "wood"}) THEN "wood"
    ELSE IF FactsMention(facts, {"gloss", "clear"}) THEN "glass or polymer"
    ELSE "composite material"

\* the JSON object a provider reply carries; a key that is absent or null holds the
\* value its "or" default replaces (an empty label, 0, an empty list, false)
ProviderPayload(object_label, confidence, scene_descriptors, safety_face_or_plate) ==
    [object_label |-> object_label, confidence |-> confidence,
     scene_descriptors |-> scene_descriptors, safety_face_or_plate |-> safety_face_or_plate]

UnknownLabel == <<"unknown">>

\* OpenAIVisionGroundingProvider._parse_response, from the parsed JSON object on
ParseResponse(parsed) ==
    [object_label |-> IF parsed.object_label = <<>> THEN UnknownLabel ELSE parsed.object_label,
     confidence |-> Max(0, Min(parsed.confidence, 100)),
     scene_descriptors |-> parsed.scene_descriptors,
     safety_face_or_plate |-> parsed.safety_face_or_plate]

\* what provider.identify_object does: return the parsed reply, or raise (no API key,
\* or every attempt failed)
ProviderReplies(parsed) == [kind |-> "response", parsed |-> parsed]
ProviderRaises ==
    [kind |-> "raise", parsed |-> ProviderPayload(<<>>, 0, <<>>, FALSE)]

ConfidenceThreshold == 45
FallbackConfidence == 20
MinFacts == 5
MaxPackFacts == 12

NoPack ==
    [anchor_label |-> <<>>, anchor_description |-> <<>>, anchor_material_guess |-> None,
     anchor_scene_context |-> <<>>, confidence |-> 0, low_confidence |-> FALSE,
     visual_facts |-> <<>>, crop_rect |-> <<>>]

\* GroundingPack(...)
GroundingPack(anchor_label, facts, anchor_scene_context, confidence, low_confidence, crop_rect) ==
    [anchor_label |-> anchor_label,
     anchor_description |-> JoinTexts(<<", ">>, Take(facts, 3)),
     anchor_material_guess |-> GuessMaterial(facts),
     anchor_scene_context |-> anchor_scene_context,
     confidence |-> confidence,
     low_confidence |-> low_confidence,
     visual_facts |-> Take(facts, MaxPackFacts),
     crop_rect |-> crop_rect]

\* the except branch of build_grounding_pack
FallbackPack(crop) ==
    LET deduped == DedupeFacts(crop.facts)
        facts == IF Len(deduped) < MinFacts
                 THEN deduped \o << <<"visible", SP, "edge", SP, "contrast">>,
                                    <<"localized", SP, "texture">>,
                                    <<"object", SP, "occupies", SP, "crop", SP, "center">> >>
                 ELSE deduped
    IN GroundingPack(UnknownLabel, facts,
                     IF crop.rect.w = 0
                     THEN <<"whole", SP, "image", SP, "fallback">>
                     ELSE <<"cropped", SP, "tap", SP, "fallback">>,
                     FallbackConfidence, TRUE, crop.rect)

\* GroundingService.build_grounding_pack: the error it raises, or the pack
BuildGroundingPack(image, tap_x, tap_y, provider) ==
    LET crop == CropAroundTap(image, tap_x, tap_y)
        provider_result == ParseResponse(provider.parsed)
        low_conf == provider_result.confidence < ConfidenceThreshold
        facts == DedupeFacts(crop.facts \o provider_result.scene_descriptors)
    IN IF ImageMissing(image)
       THEN [error |-> "grounding_pack_missing_image", pack |-> NoPack]
       ELSE IF crop.error # None
       THEN [error |-> crop.error, pack |-> NoPack]
       ELSE IF provider.kind = "raise" \/ Len(facts) < MinFacts
       THEN [error |-> None, pack |-> FallbackPack(crop)]
       ELSE [error |-> None,
             pack |-> GroundingPack(IF low_conf THEN UnknownLabel
                                    ELSE provider_result.object_label,
                                    facts,
                                    <<"around", SP, "tapped", SP, "region", SP, "at", SP,
                                      "(" \o Fixed3(tap_x) \o ",", SP, Fixed3(tap_y) \o ")">>,
                                    provider_result.confidence, low_conf, crop.rect)]

\* GroundingService.ground: the ValueError it lets through, or the GroundingResult
Ground(image, tap_x, tap_y, provider) ==
    LET built == BuildGroundingPack(image, tap_x, tap_y, provider)
        pack == built.pack
    IN IF built.error # None
       THEN [status |-> "raised", error |-> built.error, object_label |-> <<>>,
             scene_descriptors |-> <<>>, confidence |-> 0, safety_face_or_plate |-> FALSE]
       ELSE [status |-> "returned", error |-> None, object_label |-> pack.anchor_label,
             scene_descriptors |-> <<pack.anchor_description, pack.anchor_scene_context>>
                                       \o Take(pack.visual_facts, 4),
             confidence |-> pack.confidence, safety_face_or_plate |-> FALSE]

----------------------------------------------------------------------------
(* Bounds and inputs of the model.                                         *)

MaxTraces == 2          \* traces the store may hold
MaxGeneratePlans == 1   \* /generate reaches the drift engine while fewer plan calls were made
MaxApiPlans == 2        \* /deepen reaches the drift engine while fewer plan calls were made
MaxPlanCalls == 2       \* arbitrary direct plan calls on a fresh engine
MaxDarkRun == 21        \* length of a run of dark plan calls on a fresh engine
MaxAttractorRun == 4    \* length of a run of plan calls that each pick an attractor
WorkerThreads == 2      \* threads of the pool that serve /deepen at the same time
MaxInFlightPlans == 2   \* plan calls started by the worker threads

WireLabel == <<"wire">>
PlateLabel == <<"license", SP, "plate">>

SceneDescriptors ==
    << <<"coiled", SP, "copper", SP, "strand">>, <<"around tapped region">>,
       <<"nicked", SP, "insulation">>, <<"matte", SP, "dust">>, <<"small", SP, "scratch">> >>

\* what grounder.ground hands to generate: a GroundingResult, or the ValueError of
\* build_grounding_pack
GroundingResult(object_label, scene_descriptors, confidence, safety_face_or_plate) ==
    [raised |-> FALSE, object_label |-> object_label, scene_descriptors |-> scene_descriptors,
     confidence |-> confidence, safety_face_or_plate |-> safety_face_or_plate]

GroundingRaised ==
    [raised |-> TRUE, object_label |-> <<>>, scene_descriptors |-> <<>>,
     confidence |-> 0, safety_face_or_plate |-> FALSE]

ApiGroundings ==
    { GroundingResult(WireLabel, SceneDescriptors, 90, FALSE),
      GroundingResult(PlateLabel, SceneDescriptors, 70, TRUE),
      GroundingRaised }

ConstantScript(outcome) == [k \in 1..MaxAttempts |-> outcome]

\* backend behaviours explored through the handlers; without a client the backend is
\* never called
ApiScripts(has_client) ==
    IF has_client
    THEN { ConstantScript(TextOutcome("newlines")),
           ConstantScript(RaiseOutcome("openai_401", 401)) }
    ELSE { ConstantScript(TextOutcome("newlines")) }

\* backend behaviours explored through narrate
NarrationScripts == [1..MaxAttempts -> BackendOutcomes]

----------------------------------------------------------------------------
(* The handlers.                                                           *)

\* generate from the retrieval call on: narrate, then the trace and the response
GenerateRespond(ground, domain, concept_path, dark_flag, used_drift, ending_type, script) ==
    LET safety == ground.safety_face_or_plate
        snippets == Retrieve(ground.object_label, domain)
        narration == NarrateResult(llm_configured, script, ground.object_label,
                                   ground.scene_descriptors, domain, concept_path, snippets,
                                   safety, ending_type)
        trace == TraceRecord(NewTraceId(store), ground.object_label, domain, concept_path,
                             narration, safety, dark_flag)
        detail == UpstreamErrorDetail(narration)
    IN IF narration.status = "raised"
       THEN /\ store' = store
            /\ api_last' = ApiResponse("generate", GenerateRequest(ground), 502,
                                       detail.error_type, detail.upstream_status_code, NoId,
                                       <<>>, TRUE, safety, used_drift)
       ELSE /\ store' = InsertTrace(store, trace)
            /\ api_last' = Stored(ApiResponse("generate", GenerateRequest(ground), 200, None,
                                              NoCode, trace.trace_id, narration.paragraph_text,
                                              TRUE, safety, used_drift), trace)

\* POST /generate, the grounding result being what grounder.ground returned (or raised)
Generate(ground) ==
    /\ Len(store) < MaxTraces
    /\ UNCHANGED <<drift_last, llm_configured, narr_last, ground_last, in_flight, stage_last>>
    /\ IF ground.raised
       THEN /\ api_last' = ApiResponse("generate", GenerateRequest(ground), 500, "ValueError",
                                       NoCode, NoId, <<>>, FALSE, FALSE, FALSE)
            /\ UNCHANGED <<store, recent_dark, recent_attractors, plan_calls>>
       ELSE IF ground.safety_face_or_plate
       THEN /\ \E ending_type \in EndingTypes, script \in ApiScripts(llm_configured) :
                  GenerateRespond(ground, "FEEDBACK_CONTROL", SafetyPath(ground.object_label),
                                  FALSE, FALSE, ending_type, script)
            /\ UNCHANGED <<recent_dark, recent_attractors, plan_calls>>
       ELSE /\ plan_calls < MaxGeneratePlans
            /\ \E domain \in ChooseDomain(None, recent_dark) :
               \E attractor \in AttractorChoices(domain, recent_attractors) :
               \E n \in TruncationDraws :
                  LET plan == Plan(ground.object_label, domain, FALSE, recent_dark,
                                   recent_attractors, attractor, n)
                  IN IF plan.error # None
                     THEN /\ api_last' = ApiResponse("generate", GenerateRequest(ground), 500,
                                                     "ValueError", NoCode, NoId, <<>>,
                                                     FALSE, FALSE, TRUE)
                          /\ UNCHANGED <<store, recent_dark, recent_attractors, plan_calls>>
                     ELSE /\ recent_dark' = plan.recent_dark
                          /\ recent_attractors' = plan.recent_attractors
                          /\ plan_calls' = plan_calls + 1
                          /\ \E ending_type \in EndingTypes, script \in ApiScripts(llm_configured) :
                                GenerateRespond(ground, domain, plan.concept_path,
                                                plan.dark_flag, TRUE, ending_type, script)

\* the anchor with a fault: the last two nodes are joined newest first
DeepenAnchorReversed(concept_path) ==
    LET last == Len(concept_path)
    IN IF last > 1
       THEN concept_path[last].node \o <<" / ">> \o concept_path[last - 1].node
       ELSE JoinTexts(<<" / ">>, [i \in DOMAIN concept_path |-> concept_path[i].node])

\* the anchor with a fault: the first two hops are taken (concept_path[:2])
DeepenAnchorFromHead(concept_path) ==
    LET anchor_nodes == Take(concept_path, 2)
    IN JoinTexts(<<" / ">>, [i \in DOMAIN anchor_nodes |-> anchor_nodes[i].node])

\* " / ".join([h.node for h in anchor_nodes])
DeepenAnchor(concept_path) ==
    LET anchor_nodes == IF Len(concept_path) > 1
                        THEN SubSeq(concept_path, Len(concept_path) - 1, Len(concept_path))
                        ELSE concept_path
    IN JoinTexts(<<" / ">>, [i \in DOMAIN anchor_nodes |-> anchor_nodes[i].node])

DeepenDescriptors == << <<"carried-over endpoint">>, <<"continuation">> >>

\* deepen from the retrieval call on; narrate's exceptions are not caught here
DeepenRespond(request_id, previous, domain, concept_path, dark_flag, used_drift, ending_type, script) ==
    LET snippets == Retrieve(previous.object_label, domain)
        narration == NarrateResult(llm_configured, script, previous.object_label,
                                   DeepenDescriptors, domain, concept_path, snippets,
                                   previous.safety_flag, ending_type)
        trace == TraceRecord(NewTraceId(store), previous.object_label, domain, concept_path,
                             narration, previous.safety_flag, dark_flag)
    IN IF narration.status = "raised"
       THEN /\ store' = store
            /\ api_last' = ApiResponse("deepen", DeepenRequest(request_id), 500,
                                       narration.error_type, narration.status_code, NoId, <<>>,
                                       TRUE, previous.safety_flag, used_drift)
       ELSE /\ store' = InsertTrace(store, trace)
            /\ api_last' = Stored(ApiResponse("deepen", DeepenRequest(request_id), 200, None,
                                              NoCode, trace.trace_id, narration.paragraph_text,
                                              TRUE, previous.safety_flag, used_drift), trace)

\* deepen with a fault: a safety-flagged trace is planned for like any other
DeepenDriftsOnSafety(request_id) ==
    /\ UNCHANGED <<drift_last, llm_configured, narr_last, ground_last, in_flight, stage_last>>
    /\ LET previous == GetTrace(store, request_id)
           anchor == DeepenAnchor(previous.concept_path)
       IN IF previous = NoTrace
          THEN /\ api_last' = ApiResponse("deepen", DeepenRequest(request_id), 404,
                                          "trace_id not found", NoCode, NoId, <<>>,
                                          FALSE, FALSE, FALSE)
               /\ UNCHANGED <<store, recent_dark, recent_attractors, plan_calls>>
          ELSE /\ Len(store) < MaxTraces
               /\ plan_calls < MaxApiPlans
               /\ \E domain \in ChooseDomain(previous.vector_domain, recent_dark) :
                  \E attractor \in AttractorChoices(domain, recent_attractors) :
                  \E n \in TruncationDraws :
                     LET plan == Plan(anchor, domain, FALSE, recent_dark, recent_attractors,
                                      attractor, n)
                     IN IF plan.error # None
                        THEN /\ api_last' = ApiResponse("deepen", DeepenRequest(request_id), 500,
                                                        "ValueError", NoCode, NoId, <<>>,
                                                        FALSE, FALSE, TRUE)
                             /\ UNCHANGED <<store, recent_dark, recent_attractors, plan_calls>>
                        ELSE /\ recent_dark' = plan.recent_dark
                             /\ recent_attractors' = plan.recent_attractors
                             /\ plan_calls' = plan_calls + 1
                             /\ \E ending_type \in EndingTypes,
                                   script \in ApiScripts(llm_configured) :
                                   DeepenRespond(request_id, previous, domain, plan.concept_path,
                                                 plan.dark_flag, TRUE, ending_type, script)

\* POST /deepen
Deepen(request_id) ==
    /\ UNCHANGED <<drift_last, llm_configured, narr_last, ground_last, in_flight, stage_last>>
    /\ LET previous == GetTrace(store, request_id)
           anchor == DeepenAnchor(previous.concept_path)
       IN IF previous = NoTrace
          THEN /\ api_last' = ApiResponse("deepen", DeepenRequest(request_id), 404,
                                          "trace_id not found", NoCode, NoId, <<>>,
                                          FALSE, FALSE, FALSE)
               /\ UNCHANGED <<store, recent_dark, recent_attractors, plan_calls>>
          ELSE IF previous.safety_flag
          THEN /\ Len(store) < MaxTraces
               /\ \E ending_type \in EndingTypes, script \in ApiScripts(llm_configured) :
                     DeepenRespond(request_id, previous, "FEEDBACK_CONTROL", SafetyPath(anchor),
                                   FALSE, FALSE, ending_type, script)
               /\ UNCHANGED <<recent_dark, recent_attractors, plan_calls>>
          ELSE /\ Len(store) < MaxTraces
               /\ plan_calls < MaxApiPlans
               /\ \E domain \in ChooseDomain(previous.vector_domain, recent_dark) :
                  \E attractor \in AttractorChoices(domain, recent_attractors) :
                  \E n \in TruncationDraws :
                     LET plan == Plan(anchor, domain, FALSE, recent_dark, recent_attractors,
                                      attractor, n)
                     IN IF plan.error # None
                        THEN /\ api_last' = ApiResponse("deepen", DeepenRequest(request_id), 500,
                                                        "ValueError", NoCode, NoId, <<>>,
                                                        FALSE, FALSE, TRUE)
                             /\ UNCHANGED <<store, recent_dark, recent_attractors, plan_calls>>
                        ELSE /\ recent_dark' = plan.recent_dark
                             /\ recent_attractors' = plan.recent_attractors
                             /\ plan_calls' = plan_calls + 1
                             /\ \E ending_type \in EndingTypes,
                                   script \in ApiScripts(llm_configured) :
                                   DeepenRespond(request_id, previous, domain, plan.concept_path,
                                                 plan.dark_flag, TRUE, ending_type, script)

DriftIdle ==
    [op |-> None, previous |-> None, weights |-> <<>>, domain |-> None, anchor |-> <<>>,
     force_safe |-> FALSE, error |-> None, concept_path |-> <<>>, dark_flag |-> FALSE,
     attractor |-> None]

NarrIdle == [status |-> "idle"]

GroundIdle == [status |-> "idle"]

StageIdle == [op |-> None, status |-> "idle"]

\* a worker thread that serves no request
ThreadIdle ==
    [pc |-> "idle", previous |-> None, domain |-> None, attractor |-> None,
     dark_flag |-> FALSE]

\* the state after the module-level construction in main.py; NarrationService() has a
\* client when OPENAI_API_KEY is set
Constructed(has_client) ==
    /\ recent_dark = <<>>
    /\ recent_attractors = <<>>
    /\ plan_calls = 0
    /\ store = <<>>
    /\ llm_configured = has_client
    /\ api_last = ApiIdle
    /\ drift_last = DriftIdle
    /\ narr_last = NarrIdle
    /\ ground_last = GroundIdle
    /\ in_flight = [t \in 1..WorkerThreads |-> ThreadIdle]
    /\ stage_last = StageIdle

Init == \E has_client \in BOOLEAN : Constructed(has_client)

Next ==
    \/ \E ground \in ApiGroundings : Generate(ground)
    \/ \E request_id \in 1..(Len(store) + 1) : Deepen(request_id)

Spec == Init /\ [][Next]_vars

----------------------------------------------------------------------------
(* The drift engine on its own.                                            *)

DriftAnchors == {WireLabel}

ChoosePrevious == {None, "MYSTERIOUS_EVENTS"}

\* choose_domain with a fault: the domain drawn is recorded in the dark window
DriftChooseDomainRecordsDark(previous) ==
    /\ \E domain \in ChooseDomain(previous, recent_dark) :
          /\ drift_last' = [DriftIdle EXCEPT !.op = "choose_domain", !.previous = previous,
                               !.weights = ChooseDomainWeights(previous, recent_dark),
                               !.domain = domain]
          /\ recent_dark' = DequeAppend(recent_dark, domain \in DARK_DOMAINS, DarkWindowLen)
    /\ UNCHANGED <<recent_attractors, plan_calls, store, llm_configured,
                   api_last, narr_last, ground_last, in_flight, stage_last>>

\* drift.choose_domain(previous)
DriftChooseDomain(previous) ==
    /\ \E domain \in ChooseDomain(previous, recent_dark) :
          drift_last' = [DriftIdle EXCEPT !.op = "choose_domain", !.previous = previous,
                            !.weights = ChooseDomainWeights(previous, recent_dark),
                            !.domain = domain]
    /\ UNCHANGED <<recent_dark, recent_attractors, plan_calls, store, llm_configured,
                   api_last, narr_last, ground_last, in_flight, stage_last>>

AllDark(rd) == \A i \in DOMAIN rd : rd[i]

\* drift.plan(anchor, domain, force_safe)
DriftPlan(anchor, domain, force_safe) ==
    /\ \/ plan_calls < MaxPlanCalls
       \/ plan_calls < MaxDarkRun /\ DarkFlag(domain, force_safe) /\ AllDark(recent_dark)
       \/ /\ plan_calls < MaxAttractorRun
          /\ force_safe
          /\ domain \in {"PHYSICS_PARADOXES", "OBSCURE_HISTORY_AGENTS"}
          /\ Len(recent_attractors) = Min(plan_calls, AttractorWindowLen)
          /\ Range(recent_attractors) \subseteq Range(ATTRACTORS["PHYSICS_PARADOXES"])
                                                  \cup Range(ATTRACTORS["OBSCURE_HISTORY_AGENTS"])
          /\ DarkCount(recent_dark) = 0
          /\ AttractorCandidates(domain, recent_attractors) # {}
    /\ \E attractor \in AttractorChoices(domain, recent_attractors) :
       \E n \in TruncationDraws :
          LET plan == Plan(anchor, domain, force_safe, recent_dark, recent_attractors,
                           attractor, n)
          IN /\ drift_last' = [DriftIdle EXCEPT !.op = "plan", !.domain = domain,
                                  !.anchor = anchor, !.force_safe = force_safe,
                                  !.error = plan.error, !.concept_path = plan.concept_path,
                                  !.dark_flag = plan.dark_flag, !.attractor = plan.attractor]
             /\ recent_dark' = plan.recent_dark
             /\ recent_attractors' = plan.recent_attractors
             /\ plan_calls' = IF plan.error = None THEN plan_calls + 1 ELSE plan_calls
    /\ UNCHANGED <<store, llm_configured, api_last, narr_last, ground_last, in_flight, stage_last>>

NextDrift ==
    \/ \E previous \in ChoosePrevious : DriftChooseDomain(previous)
    \/ \E anchor \in DriftAnchors, domain \in VectorDomain, force_safe \in BOOLEAN :
          DriftPlan(anchor, domain, force_safe)

\* DriftEngine()
InitDrift == Constructed(FALSE)

SpecDrift == InitDrift /\ [][NextDrift]_vars

----------------------------------------------------------------------------
(* The narration service on its own.                                       *)

NarrationDescriptors == {SceneDescriptors, DeepenDescriptors}

\* (domain, path, safety_redirect) as the handlers pass them
NarrationSubjects ==
    { [domain |-> "FEEDBACK_CONTROL", path |-> SafetyPath(PlateLabel), safety_redirect |-> TRUE],
      [domain |-> "MYSTERIOUS_EVENTS",
       path |-> Take(PlanChain(WireLabel, "MYSTERIOUS_EVENTS", "Pauli Effect"), 9),
       safety_redirect |-> FALSE] }

\* narrator.narrate(...)
Narrate(object_label, descriptors, subject, ending_type, script) ==
    /\ LET result == NarrateResult(llm_configured, script, object_label, descriptors,
                                   subject.domain, subject.path,
                                   Retrieve(object_label, subject.domain),
                                   subject.safety_redirect, ending_type)
       IN narr_last' = [status |-> result.status, safety_redirect |-> subject.safety_redirect,
                        path |-> subject.path, ending_draw |-> ending_type, script |-> script,
                        descriptors |-> descriptors, result |-> result]
    /\ UNCHANGED <<recent_dark, recent_attractors, plan_calls, store, llm_configured,
                   api_last, drift_last, ground_last, in_flight, stage_last>>

\* the caller takes the result; the service is ready for the next request
NarrateDone ==
    /\ narr_last.status # "idle"
    /\ narr_last' = NarrIdle
    /\ UNCHANGED <<recent_dark, recent_attractors, plan_calls, store, llm_configured,
                   api_last, drift_last, ground_last, in_flight, stage_last>>

NextNarr ==
    \/ /\ narr_last.status = "idle"
       /\ \E object_label \in {WireLabel}, descriptors \in NarrationDescriptors,
             subject \in NarrationSubjects, ending_type \in EndingTypes,
             script \in NarrationScripts :
             Narrate(object_label, descriptors, subject, ending_type, script)
    \/ NarrateDone

SpecNarr == Init /\ [][NextNarr]_vars

----------------------------------------------------------------------------
(* The grounding service on its own.                                       *)

GroundImages ==
    { ImageBytes("none", 0, 0), ImageBytes("empty", 0, 0), ImageBytes("other", 0, 0),
      ImageBytes("png", 640, 480), ImageBytes("jpeg", 40, 50) }

GroundTapsX == {-250, 500, 1500}
GroundTapsY == {0, 1000}

ProviderDescriptors ==
    { <<>>,
      << <<"Brushed", SP, "metal", SP, "casing">>,
         <<"Object-adjacent", SP, SP, "region", SP, "centered", SP, "on", SP, "tap">>,
         <<"coiled", SP, "copper", SP, "strand">>,
         <<SP>> >> }

\* what the provider may do for one identify_object call
ProviderOutcomes ==
    {ProviderRaises}
        \cup { ProviderReplies(ProviderPayload(WireLabel, confidence, descriptors, safety)) :
                  confidence \in {ConfidenceThreshold - 1, ConfidenceThreshold},
                  descriptors \in ProviderDescriptors, safety \in BOOLEAN }
        \cup { ProviderReplies(ProviderPayload(<<>>, 0, <<>>, FALSE)),
               ProviderReplies(ProviderPayload(PlateLabel, 150, <<>>, TRUE)) }

\* grounder.ground(image_bytes, tap_x, tap_y)
GroundCall(image, tap_x, tap_y, provider) ==
    /\ LET result == Ground(image, tap_x, tap_y, provider)
       IN ground_last' = [status |-> result.status, image |-> image, tap_x |-> tap_x,
                          tap_y |-> tap_y, provider |-> provider,
                          pack |-> BuildGroundingPack(image, tap_x, tap_y, provider).pack,
                          result |-> result]
    /\ UNCHANGED <<recent_dark, recent_attractors, plan_calls, store, llm_configured,
                   api_last, drift_last, narr_last, in_flight, stage_last>>

\* the caller takes the result; the service is ready for the next request
GroundDone ==
    /\ ground_last.status # "idle"
    /\ ground_last' = GroundIdle
    /\ UNCHANGED <<recent_dark, recent_attractors, plan_calls, store, llm_configured,
                   api_last, drift_last, narr_last, in_flight, stage_last>>

NextGround ==
    \/ /\ ground_last.status = "idle"
       /\ \E image \in GroundImages, tap_x \in GroundTapsX, tap_y \in GroundTapsY,
             provider \in ProviderOutcomes :
             GroundCall(image, tap_x, tap_y, provider)
    \/ GroundDone

SpecGround == InitDrift /\ [][NextGround]_vars

----------------------------------------------------------------------------
(* /deepen served by the worker threads of the pool.  deepen is a plain     *)
(* function, so each request runs in a thread of its own; the one           *)
(* DriftEngine is shared and no lock guards it.  A thread can be preempted  *)
(* between any two statements, so each read and each append of a window is  *)
(* a step.  What deepen does after plan returns works on the request's own  *)
(* values and the store, not on the windows.                                *)

\* previous.vector_domain of the traces deepened
InFlightPrevious == {"FEEDBACK_CONTROL", "MYSTERIOUS_EVENTS"}

InFlightAnchor == <<"constraints", " / ", "scene-level return signal">>

\* domain = drift.choose_domain(previous=previous.vector_domain): reads recent_dark
DeepenChooseDomain(t, previous) ==
    /\ in_flight[t].pc = "idle"
    /\ plan_calls + Cardinality({u \in DOMAIN in_flight : in_flight[u].pc # "idle"})
          < MaxInFlightPlans
    /\ \E domain \in ChooseDomain(previous, recent_dark) :
          in_flight' = [in_flight EXCEPT ![t] =
                           [ThreadIdle EXCEPT !.pc = "chosen", !.previous = previous,
                                              !.domain = domain]]
    /\ UNCHANGED <<recent_dark, recent_attractors, plan_calls, store, llm_configured,
                   api_last, drift_last, narr_last, ground_last,
                   stage_last>>

\* plan, its first three statements: candidates read from recent_attractors, the
\* attractor drawn from them, dark_flag
PlanPickAttractor(t) ==
    /\ in_flight[t].pc = "chosen"
    /\ \E attractor \in AttractorChoices(in_flight[t].domain, recent_attractors) :
          in_flight' = [in_flight EXCEPT ![t].pc = "picked", ![t].attractor = attractor,
                           ![t].dark_flag = DarkFlag(in_flight[t].domain, FALSE)]
    /\ UNCHANGED <<recent_dark, recent_attractors, plan_calls, store, llm_configured,
                   api_last, drift_last, narr_last, ground_last,
                   stage_last>>

\* plan: the chain is built, truncated and validated; self.recent_dark.append(dark_flag)
PlanAppendDark(t) ==
    /\ in_flight[t].pc = "picked"
    /\ \E n \in TruncationDraws :
          Validate(Take(PlanChain(InFlightAnchor, in_flight[t].domain, in_flight[t].attractor),
                        n), in_flight[t].domain).error = None
    /\ recent_dark' = DequeAppend(recent_dark, in_flight[t].dark_flag, DarkWindowLen)
    /\ in_flight' = [in_flight EXCEPT ![t].pc = "dark_appended"]
    /\ UNCHANGED <<recent_attractors, plan_calls, store, llm_configured,
                   api_last, drift_last, narr_last, ground_last,
                   stage_last>>

\* plan: if attractor: self.recent_attractors.append(attractor)
PlanAppendAttractor(t) ==
    /\ in_flight[t].pc = "dark_appended"
    /\ recent_attractors' = IF in_flight[t].attractor # None
                            THEN DequeAppend(recent_attractors, in_flight[t].attractor,
                                             AttractorWindowLen)
                            ELSE recent_attractors
    /\ in_flight' = [in_flight EXCEPT ![t].pc = "attractor_appended"]
    /\ UNCHANGED <<recent_dark, plan_calls, store, llm_configured,
                   api_last, drift_last, narr_last, ground_last,
                   stage_last>>

\* plan returns its DriftPlan; the thread goes on to narrate and is free afterwards
PlanReturn(t) ==
    /\ in_flight[t].pc = "attractor_appended"
    /\ plan_calls' = plan_calls + 1
    /\ in_flight' = [in_flight EXCEPT ![t] = ThreadIdle]
    /\ UNCHANGED <<recent_dark, recent_attractors, store, llm_configured,
                   api_last, drift_last, narr_last, ground_last,
                   stage_last>>

NextInFlight ==
    \E t \in 1..WorkerThreads :
        \/ \E previous \in InFlightPrevious : DeepenChooseDomain(t, previous)
        \/ PlanPickAttractor(t)
        \/ PlanAppendDark(t)
        \/ PlanAppendAttractor(t)
        \/ PlanReturn(t)

SpecInFlight == InitDrift /\ [][NextInFlight]_vars

----------------------------------------------------------------------------
(* The two-stage pipeline: generate_outline (services/stage1_outline.py)    *)
(* and generate_prose_stage2 (services/stage2_prose.py).  OutlinePlan,      *)
(* ConceptPath and RetrievalBundle are imported from app.models, which does *)
(* not declare them.                                                        *)

\* OutlinePlan(...): the model object, or the validation error of a declaration that
\* enforces min_facts entries in visual_facts_used (0: the declaration enforces none)
OutlinePlan(visual_facts_used, hop_trace, min_facts) ==
    IF Len(visual_facts_used) < min_facts
    THEN [status |-> "raised", error_type |-> "ValidationError", visual_facts_used |-> <<>>,
          hop_trace |-> <<>>, micro_outline |-> <<>>]
    ELSE [status |-> "returned", error_type |-> None, visual_facts_used |-> visual_facts_used,
          hop_trace |-> hop_trace,
          micro_outline |->
              << "Recognition sentence plan using visible anchor details in present tense.",
                 "Material descent plan from visible texture to material composition.",
                 "System expansion plan tied to retrieved industrial or ecological contexts.",
                 "Scale destabilization plan with order-of-magnitude cue.",
                 "Conceptual turn plan constrained by adjacency relation and evidence.",
                 "Return/suspension plan back to the scene without moral closure." >>]

\* _fallback_outline; hop k of the loop is appended while len(hops) = k - 1
FallbackOutline(grounding_pack, concept_path, fragments, min_facts) ==
    LET taken == Take(concept_path, 6)
        evidence(k) == IF fragments # <<>>
                       THEN fragments[Min(k - 1, Max(Len(fragments) - 1, 0)) + 1]
                       ELSE grounding_pack.anchor_description
        hops == [k \in DOMAIN taken |->
                    [from_node |-> taken[k].from_node, to_node |-> taken[k].to_node,
                     relation |-> taken[k].relation, evidence |-> evidence(k)]]
    IN OutlinePlan(Take(grounding_pack.visual_facts, 6), hops, min_facts)

\* generate_outline, the backend's reply being a raise, text that json.loads rejects, or
\* a JSON object; the call of the backend is made before the try block
GenerateOutline(has_client, reply, grounding_pack, concept_path, fragments, min_facts) ==
    LET fallback == FallbackOutline(grounding_pack, concept_path, fragments, min_facts)
        validated == OutlinePlan(reply.payload.visual_facts_used, reply.payload.hop_trace,
                                 min_facts)
    IN IF ~has_client THEN fallback
       ELSE IF reply.kind = "raise"
       THEN [fallback EXCEPT !.status = "raised", !.error_type = reply.error_type,
                             !.visual_facts_used = <<>>, !.hop_trace = <<>>,
                             !.micro_outline = <<>>]
       ELSE IF reply.kind = "json" /\ validated.status = "returned" THEN validated
       ELSE fallback

\* the inputs of the pipeline: packs the grounding service builds (five crop facts; crop
\* facts and three descriptors) and the pack of tests/test_generation_contracts.py,
\* concept paths of one and seven hops, retrieval fragments, replies of the backend to
\* the outline prompt, and the texts it returns for a prose prompt (raw, and as
\* " ".join(raw.replace("\n", " ").split()) leaves them).  Prose is generated for the
\* pack of the test file, whose label, facts and context are plain words.
StageInputs ==
    LET bolt ==
            [NoPack EXCEPT
                !.anchor_label = <<"bolt">>,
                !.anchor_description = <<"dull", SP, "gray", SP, "head", ",", SP, "chipped", SP,
                                         "rim", ",", SP, "oily", SP, "sheen">>,
                !.anchor_material_guess = "metal",
                !.anchor_scene_context = <<"on", SP, "scratched", SP, "painted", SP, "panel">>,
                !.confidence = 80,
                !.visual_facts = << <<"dull", SP, "gray", SP, "head">>,
                                    <<"hexagonal", SP, "rim">>,
                                    <<"oily", SP, "sheen">>,
                                    <<"chipped", SP, "paint", SP, "around", SP, "edge">>,
                                    <<"rust", SP, "freckles">>,
                                    <<"shadow", SP, "to", SP, "lower", SP, "right">>,
                                    <<"thread", SP, "marks">> >>]
        grounded == <<NL, TAB>> \o JoinTexts(<<",", SP>>, bolt.visual_facts) \o <<".", NL>>
                        \o WordsText(MinWords, SP)
        prose == [name \in {"valid", "short", "second_person", "essence", "no_cue"} |->
                     CASE name = "valid" -> grounded \o <<NL, "centuries", NL>>
                       [] name = "short" -> WordsText(ShortWords, SP)
                       [] name = "second_person" -> grounded \o <<SP, "micron", SP, "You", ".">>
                       [] name = "essence" ->
                              <<"In", SP, "essence", SP>> \o grounded \o <<SP, "millimeter", "s">>
                       [] name = "no_cue" -> grounded]
    IN
    [packs |->
        { BuildGroundingPack(ImageBytes("png", 640, 480), 500, 0, provider).pack :
             provider \in { ProviderRaises,
                            ProviderReplies(ProviderPayload(WireLabel, ConfidenceThreshold,
                                CHOOSE d \in ProviderDescriptors : d # <<>>, FALSE)) } }
        \cup {bolt},
     prose_packs |-> {bolt},
     prose_text |-> prose,
     prose_normalized |-> [name \in DOMAIN prose |-> NormalizeOutput(prose[name])],
     prose_replies |->
        { [kind |-> "text", text |-> name, error_type |-> None] : name \in DOMAIN prose }
        \cup { [kind |-> "raise", text |-> None, error_type |-> "RuntimeError"] },
     paths |->
        { [k \in 1..n |-> [from_node |-> <<"node", k - 1>>, to_node |-> <<"node", k>>,
                           relation |-> "made_of"]] : n \in {1, 7} },
     fragments |-> { <<>>, <<"frag1", "frag2">> },
     outline_replies |->
        { [kind |-> "raise", error_type |-> "RuntimeError",
           payload |-> [visual_facts_used |-> <<>>, hop_trace |-> <<>>]],
          [kind |-> "text", error_type |-> None,
           payload |-> [visual_facts_used |-> <<>>, hop_trace |-> <<>>]] }
        \cup { [kind |-> "json", error_type |-> None,
                payload |-> [visual_facts_used |-> [i \in 1..n |-> <<"fact", i>>],
                             hop_trace |-> <<>>]] : n \in {2, 6} }]

\* validate_prose with a fault: required_visual_hits = max(6, max(3, len(visual_facts)))
ValidateProseAlwaysSixHits(paragraph, grounding_pack) ==
    LET lowered == [i \in DOMAIN paragraph |-> LowerToken(paragraph[i])]
        In(phrase) == \E i \in 1..(Len(lowered) - Len(phrase) + 1) :
                         SubSeq(lowered, i, i + Len(phrase) - 1) = phrase
        words == WordCount(paragraph)
        facts == grounding_pack.visual_facts
        Long(tok) == ~IsSpace(tok) /\ tok \notin {"a", "x", "y", "to", "of", "on", "by", "px"}
        tokens(fact) == Take(SelectSeq([k \in DOMAIN fact |-> LowerToken(fact[k])], Long), 4)
        visual_hits == Cardinality({k \in DOMAIN facts :
                                       \E j \in DOMAIN tokens(facts[k]) :
                                          In(<<tokens(facts[k])[j]>>)})
        required_visual_hits == Max(6, Max(3, Len(facts)))
        Violation(name, failed) == IF failed THEN <<name>> ELSE <<>>
    IN Violation("word_count", ~(250 <= words /\ words <= 350))
       \o Violation("single_paragraph", Contains(paragraph, NL))
       \o Violation("no_second_person", \E w \in {"you", "your", "we"} : In(<<w>>))
       \o Violation("visual_facts", visual_hits < required_visual_hits)
       \o Violation("conclusion_markers",
                    \/ In(<<"in", SP, "essence">>)
                    \/ In(<<"ultimately">>)
                    \/ In(<<"this", SP, "perspective", SP, "urges">>)
                    \/ In(<<"this", SP, "shows", SP, "that">>))
       \o Violation("scale_shift_cue",
                    ~(\/ \E cue \in {"micron", "planetary", "centuries", "millions",
                                      "infrared", "kilometer", "millimeter"} : In(<<cue>>)
                      \/ In(<<"global", SP, "shipment">>)))

\* validate_prose with a fault: it returns at the first failed check
ValidateProseFirstFailure(paragraph, grounding_pack) ==
    LET lowered == [i \in DOMAIN paragraph |-> LowerToken(paragraph[i])]
        In(phrase) == \E i \in 1..(Len(lowered) - Len(phrase) + 1) :
                         SubSeq(lowered, i, i + Len(phrase) - 1) = phrase
        words == WordCount(paragraph)
        facts == grounding_pack.visual_facts
        Long(tok) == ~IsSpace(tok) /\ tok \notin {"a", "x", "y", "to", "of", "on", "by", "px"}
        tokens(fact) == Take(SelectSeq([k \in DOMAIN fact |-> LowerToken(fact[k])], Long), 4)
        visual_hits == Cardinality({k \in DOMAIN facts :
                                       \E j \in DOMAIN tokens(facts[k]) :
                                          In(<<tokens(facts[k])[j]>>)})
        required_visual_hits == Min(6, Max(3, Len(facts)))
        Violation(name, failed) == IF failed THEN <<name>> ELSE <<>>
        all ==
       Violation("word_count", ~(250 <= words /\ words <= 350))
       \o Violation("single_paragraph", Contains(paragraph, NL))
       \o Violation("no_second_person", \E w \in {"you", "your", "we"} : In(<<w>>))
       \o Violation("visual_facts", visual_hits < required_visual_hits)
       \o Violation("conclusion_markers",
                    \/ In(<<"in", SP, "essence">>)
                    \/ In(<<"ultimately">>)
                    \/ In(<<"this", SP, "perspective", SP, "urges">>)
                    \/ In(<<"this", SP, "shows", SP, "that">>))
       \o Violation("scale_shift_cue",
                    ~(\/ \E cue \in {"micron", "planetary", "centuries", "millions",
                                      "infrared", "kilometer", "millimeter"} : In(<<cue>>)
                      \/ In(<<"global", SP, "shipment">>)))
    IN Take(all, 1)

\* validate_prose.  Texts are token sequences with punctuation as tokens of its own,
\* so "x in lowered" is a match of consecutive tokens; the regex tokens of a fact are
\* its words, those of one or two characters left out.
ValidateProse(paragraph, grounding_pack) ==
    LET lowered == [i \in DOMAIN paragraph |-> LowerToken(paragraph[i])]
        In(phrase) == \E i \in 1..(Len(lowered) - Len(phrase) + 1) :
                         SubSeq(lowered, i, i + Len(phrase) - 1) = phrase
        words == WordCount(paragraph)
        facts == grounding_pack.visual_facts
        Long(tok) == ~IsSpace(tok) /\ tok \notin {"a", "x", "y", "to", "of", "on", "by", "px"}
        tokens(fact) == Take(SelectSeq([k \in DOMAIN fact |-> LowerToken(fact[k])], Long), 4)
        visual_hits == Cardinality({k \in DOMAIN facts :
                                       \E j \in DOMAIN tokens(facts[k]) :
                                          In(<<tokens(facts[k])[j]>>)})
        required_visual_hits == Min(6, Max(3, Len(facts)))
        Violation(name, failed) == IF failed THEN <<name>> ELSE <<>>
    IN Violation("word_count", ~(250 <= words /\ words <= 350))
       \o Violation("single_paragraph", Contains(paragraph, NL))
       \o Violation("no_second_person", \E w \in {"you", "your", "we"} : In(<<w>>))
       \o Violation("visual_facts", visual_hits < required_visual_hits)
       \o Violation("conclusion_markers",
                    \/ In(<<"in", SP, "essence">>)
                    \/ In(<<"ultimately">>)
                    \/ In(<<"this", SP, "perspective", SP, "urges">>)
                    \/ In(<<"this", SP, "shows", SP, "that">>))
       \o Violation("scale_shift_cue",
                    ~(\/ \E cue \in {"micron", "planetary", "centuries", "millions",
                                      "infrared", "kilometer", "millimeter"} : In(<<cue>>)
                      \/ In(<<"global", SP, "shipment">>)))

\* _fallback_paragraph: the IndexError of facts[k] for a pack of fewer than four facts,
\* or the paragraph
FallbackParagraph(grounding_pack) ==
    LET facts == Take(grounding_pack.visual_facts
                          \o << <<"a", SP, "thin", SP, "film", SP, "of", SP, "residue">>,
                                <<"a", SP, "few", SP, "millimeter", "s", SP, "of", SP, "worn",
                                  SP, "edge">>,
                                <<"patina", SP, "from", SP, "repeated", SP, "handling">> >>, 9)
    IN IF Len(facts) < 7
       THEN [status |-> "raised", paragraph_text |-> <<>>]
       ELSE [status |-> "returned", paragraph_text |-> SplitJoin(
               <<"The", SP>>
            \o grounding_pack.anchor_label
            \o <<SP, "stays", SP, "in", SP, "frame", SP, "as", SP, "a", SP, "concrete", SP,
                 "surface", SP, "rather", SP, "than", SP, "an", SP, "idea", ":", SP>>
            \o facts[1]
            \o <<",", SP>>
            \o facts[2]
            \o <<",", SP, "and", SP>>
            \o facts[3]
            \o <<SP, "hold", SP, "in", SP, "present", SP, "light", SP, "while", SP>>
            \o facts[4]
            \o <<SP, "keeps", SP, "the", SP, "anchor", SP, "pinned", SP, "near", SP>>
            \o grounding_pack.anchor_scene_context
            \o <<".", SP, "Its", SP, "material", SP, "behavior", SP, "reads", SP, "as", SP>>
            \o <<grounding_pack.anchor_material_guess>>
            \o <<",", SP, "where", SP>>
            \o facts[5]
            \o <<SP, "and", SP>>
            \o facts[6]
            \o <<SP, "show", SP, "how", SP, "pressure", ",", SP, "heat", ",", SP, "and", SP,
                 "handling", SP, "leave", SP, "a", SP, "thin", SP, "film", SP, "and", SP, "a", SP,
                 "few", SP, "millimeter", "s", SP, "of", SP, "softened", SP, "edge", SP, "over", SP,
                 "time", ",", SP, "and", SP, "where", SP>>
            \o facts[7]
            \o <<SP, "records", SP, "older", SP, "contact", SP, "as", SP, "a", SP, "visible", SP,
                 "timeline", ".", SP, "What", SP, "looks", SP, "static", SP, "is", SP, "enabled", SP,
                 "by", SP, "extraction", ",", SP, "smelting", ",", SP, "machining", SP, "tolerances",
                 ",", SP, "adhesive", SP, "chemistry", ",", SP, "and", SP, "maintenance", SP,
                 "rituals", ";", SP, "global", SP, "shipment", SP, "schedules", ",", SP, "port", SP,
                 "bottlenecks", ",", SP, "and", SP, "warehouse", SP, "humidity", SP, "decide", SP,
                 "whether", SP, "this", SP, "surface", SP, "arrives", SP, "matte", SP, "or", SP,
                 "glossy", ",", SP, "and", SP, "whether", SP, "the", SP, "seam", SP, "keeps", SP,
                 "its", SP, "bite", SP, "or", SP, "flakes", SP, "early", SP, "under", SP,
                 "vibration", ".", SP, "At", SP, "micron", SP, "scale", SP, "the", SP, "texture", SP,
                 "becomes", SP, "ridges", SP, "and", SP, "pits", SP, "with", SP, "edge", SP, "burrs",
                 ",", SP, "while", SP, "across", SP, "centuries", SP, "the", SP, "same", SP,
                 "pattern", SP, "sits", SP, "inside", SP, "mining", SP, "histories", ",", SP,
                 "labor", SP, "shifts", ",", SP, "refinery", SP, "emissions", ",", SP, "and", SP,
                 "disposal", SP, "routes", SP, "that", SP, "recirculate", SP, "residue", SP, "into",
                 SP, "water", SP, "and", SP, "air", SP, "before", SP, "re-entering", SP, "new", SP,
                 "commodity", SP, "loops", ".", SP, "That", SP, "scale", SP, "jump", SP, "does", SP,
                 "not", SP, "abandon", SP, "the", SP, "object", ";", SP, "it", SP, "keeps", SP,
                 "the", SP, "anchor", SP, "as", SP, "an", SP, "index", SP, "of", SP, "computed", SP,
                 "quality", SP, "control", ",", SP, "where", SP, "scanners", ",", SP, "confidence",
                 SP, "thresholds", ",", SP, "and", SP, "replacement", SP, "rules", SP, "translate",
                 SP, "scratches", SP, "into", SP, "pass/fail", SP, "signals", SP, "and", SP, "feed",
                 SP, "purchasing", SP, "cycles", ",", SP, "repair", SP, "tickets", ",", SP, "and",
                 SP, "inventory", SP, "forecasts", ".", SP, "The", SP, "scene", SP, "returns", SP,
                 "without", SP, "closure", ":", SP>>
            \o grounding_pack.anchor_description
            \o <<SP, "remains", SP, "present", ",", SP, "held", SP, "between", SP, "use", SP, "and",
                 SP, "decay", ",", SP, "still", SP, "carrying", SP, "patina", ",", SP, "measurement",
                 ",", SP, "and", SP, "unresolved", SP, "agency", SP, "in", SP, "the", SP, "same", SP,
                 "handspan", SP, "of", SP, "matter", ",", SP, "with", SP, "no", SP, "clean", SP,
                 "moral", SP, "and", SP, "no", SP, "final", SP, "release", SP, "from", SP, "the", SP,
                 "object", SP, "itself", ".">>)]

\* generate_prose_stage2 with a fault: the repaired paragraph is returned with the
\* violations of the first paragraph
GenerateProseStage2StaleViolations(has_client, script, outline, grounding_pack) ==
    LET Result(status, error_type, paragraph, violations, calls) ==
            [status |-> status, error_type |-> error_type, paragraph_text |-> paragraph,
             validation_passed |-> violations = <<>>, violations |-> violations,
             calls |-> calls]
        Call(user_prompt) == [system_prompt |-> "STAGE2_SYSTEM_PROMPT",
                              user_prompt |-> user_prompt]
        fallback == FallbackParagraph(grounding_pack)
        user_prompt == <<"build_stage2_user_prompt", outline, grounding_pack>>
        paragraph == StageInputs.prose_normalized[script[1].text]
        violations == ValidateProse(paragraph, grounding_pack)
        repair_prompt ==
            <<"Repair the paragraph. Violations: ">>
                \o JoinTexts(<<", ">>, [k \in DOMAIN violations |-> <<violations[k]>>])
                \o <<". ", "Grounding facts: ">>
                \o JoinTexts(<<", ">>, grounding_pack.visual_facts)
                \o <<". ", "Return one paragraph only and satisfy all constraints.">>
        paragraph_repair == StageInputs.prose_normalized[script[2].text]
    IN IF ~has_client
       THEN IF fallback.status = "raised"
            THEN Result("raised", "IndexError", <<>>, <<>>, <<>>)
            ELSE Result("returned", None, fallback.paragraph_text,
                        ValidateProse(fallback.paragraph_text, grounding_pack), <<>>)
       ELSE IF script[1].kind = "raise"
       THEN Result("raised", script[1].error_type, <<>>, <<>>, <<Call(user_prompt)>>)
       ELSE IF violations = <<>>
       THEN Result("returned", None, paragraph, <<>>, <<Call(user_prompt)>>)
       ELSE IF script[2].kind = "raise"
       THEN Result("raised", script[2].error_type, <<>>, <<>>,
                   <<Call(user_prompt), Call(repair_prompt)>>)
       ELSE Result("returned", None, paragraph_repair, violations,
                   <<Call(user_prompt), Call(repair_prompt)>>)

\* generate_prose_stage2, script[k] being what the backend does when called the k-th
\* time; ProseResult(...) is the record of its three fields
GenerateProseStage2(has_client, script, outline, grounding_pack) ==
    LET Result(status, error_type, paragraph, violations, calls) ==
            [status |-> status, error_type |-> error_type, paragraph_text |-> paragraph,
             validation_passed |-> violations = <<>>, violations |-> violations,
             calls |-> calls]
        Call(user_prompt) == [system_prompt |-> "STAGE2_SYSTEM_PROMPT",
                              user_prompt |-> user_prompt]
        fallback == FallbackParagraph(grounding_pack)
        user_prompt == <<"build_stage2_user_prompt", outline, grounding_pack>>
        paragraph == StageInputs.prose_normalized[script[1].text]
        violations == ValidateProse(paragraph, grounding_pack)
        repair_prompt ==
            <<"Repair the paragraph. Violations: ">>
                \o JoinTexts(<<", ">>, [k \in DOMAIN violations |-> <<violations[k]>>])
                \o <<". ", "Grounding facts: ">>
                \o JoinTexts(<<", ">>, grounding_pack.visual_facts)
                \o <<". ", "Return one paragraph only and satisfy all constraints.">>
        paragraph_repair == StageInputs.prose_normalized[script[2].text]
        repair_violations == ValidateProse(paragraph_repair, grounding_pack)
    IN IF ~has_client
       THEN IF fallback.status = "raised"
            THEN Result("raised", "IndexError", <<>>, <<>>, <<>>)
            ELSE Result("returned", None, fallback.paragraph_text,
                        ValidateProse(fallback.paragraph_text, grounding_pack), <<>>)
       ELSE IF script[1].kind = "raise"
       THEN Result("raised", script[1].error_type, <<>>, <<>>, <<Call(user_prompt)>>)
       ELSE IF violations = <<>>
       THEN Result("returned", None, paragraph, <<>>, <<Call(user_prompt)>>)
       ELSE IF script[2].kind = "raise"
       THEN Result("raised", script[2].error_type, <<>>, <<>>,
                   <<Call(user_prompt), Call(repair_prompt)>>)
       ELSE Result("returned", None, paragraph_repair, repair_violations,
                   <<Call(user_prompt), Call(repair_prompt)>>)

\* generate_prose_stage2(llm_client, outline, grounding_pack)
ProseCall(has_client, script, outline, grounding_pack) ==
    /\ LET result == GenerateProseStage2(has_client, script, outline, grounding_pack)
       IN stage_last' = [op |-> "generate_prose_stage2", status |-> result.status,
                         has_client |-> has_client, script |-> script,
                         outline |-> outline, grounding_pack |-> grounding_pack,
                         result |-> result]
    /\ UNCHANGED <<recent_dark, recent_attractors, plan_calls, store, llm_configured,
                   api_last, drift_last, narr_last, ground_last, in_flight>>

\* generate_outline(llm_client, grounding_pack, concept_path, retrieval_bundle)
OutlineCall(has_client, reply, grounding_pack, concept_path, fragments, min_facts) ==
    /\ LET result == GenerateOutline(has_client, reply, grounding_pack, concept_path,
                                     fragments, min_facts)
       IN stage_last' = [op |-> "generate_outline", status |-> result.status,
                         has_client |-> has_client, reply |-> reply,
                         grounding_pack |-> grounding_pack, concept_path |-> concept_path,
                         fragments |-> fragments, min_facts |-> min_facts,
                         result |-> result]
    /\ UNCHANGED <<recent_dark, recent_attractors, plan_calls, store, llm_configured,
                   api_last, drift_last, narr_last, ground_last, in_flight>>

\* ChatCompletionLLMClient.max_retries values explored: 0..MaxClientRetries (the default is 3)
MaxClientRetries == 3

\* What one HTTP attempt of ChatCompletionLLMClient.generate can meet, and the random.random()
\* draw of its backoff, in milliseconds (random.random() * 0.2 lies in [0, 0.2)).
\*   response_ok     200, {"choices": [{"message": {"content": ...}}]}
\*   response_status a status code other than 200
\*   timeout         client.post raises httpx.TimeoutException
\*   no_choices      200, a JSON object without "choices"  (KeyError)
\*   empty_choices   200, {"choices": []}                  (IndexError)
\*   not_json        200, a body that is not JSON          (json.JSONDecodeError, a ValueError)
HttpOutcomes ==
    LET kinds == [kind : {"response_ok"}, status_code : {200}]
                 \cup [kind : {"response_status"}, status_code : {400, 401, 429, 503}]
                 \cup [kind : {"timeout"}, status_code : {0}]
                 \cup [kind : {"no_choices", "empty_choices", "not_json"}, status_code : {200}]
    IN  { [kind |-> k.kind, status_code |-> k.status_code, jitter |-> j] :
              k \in kinds, j \in {0, 199} }

\* ChatCompletionLLMClient.generate: script[i] is what HTTP attempt i meets.
\* The result records the attempts made and the sleeps taken (milliseconds), in order.
ClientGenerate(has_httpx, api_key, max_retries, script) ==
    LET solid == { i \in DOMAIN api_key : ~IsSpace(api_key[i]) }
        stripped == IF solid = {} THEN <<>>
                    ELSE SubSeq(api_key,
                                CHOOSE i \in solid : \A j \in solid : i <= j,
                                CHOOSE i \in solid : \A j \in solid : i >= j)
        \* what the try block and the except clauses make of one attempt
        Effect(o) ==
            CASE o.kind = "response_ok" -> "return"
              [] o.kind = "response_status" /\ o.status_code = 401 -> "typed_abort"
              [] o.kind = "response_status" /\ o.status_code \in {429, 500, 502, 503, 504}
                    -> "typed_retry"
              [] o.kind = "response_status" -> "untyped_retry"   \* raise_for_status: HTTPError
              [] o.kind = "timeout" -> "untyped_retry"
              [] o.kind = "no_choices" -> "untyped_retry"        \* KeyError
              [] OTHER -> "escape"                               \* no except clause matches
        Stops(i) == Effect(script[i]) \in {"return", "typed_abort", "escape"}
                    \/ i >= max_retries
        last == IF max_retries <= 0 THEN 0
                ELSE CHOOSE i \in 1..max_retries :
                         Stops(i) /\ \A j \in 1..(i - 1) : ~Stops(j)
        sleeps == [ i \in 1..(last - 1) |->
                      Min(2 ^ (i - 1), 4) * 1000 + script[i].jitter ]
        Raised(exception, error_type, status_code, attempts, slept) ==
            [status |-> "raised", exception |-> exception, error_type |-> error_type,
             status_code |-> status_code, text |-> None,
             attempts |-> attempts, sleeps |-> slept]
    IN  IF ~has_httpx
            THEN Raised("RuntimeError", "httpx is required", 0, 0, <<>>)
        ELSE IF stripped = <<>>
            THEN Raised("OpenAIClientError", "missing_key", 0, 0, <<>>)
        ELSE IF last = 0
            THEN Raised("RuntimeError", "Chat completion failed after retries", 0, 0, <<>>)
        ELSE LET o == script[last]
                 effect == Effect(o)
             IN  CASE effect = "return"
                        -> [status |-> "returned", exception |-> None, error_type |-> None,
                            status_code |-> 0, text |-> "content",
                            attempts |-> last, sleeps |-> sleeps]
                   [] effect = "typed_abort"
                        -> Raised("OpenAIClientError", "openai_401", 401, last, sleeps)
                   [] effect = "typed_retry"
                        -> Raised("OpenAIClientError", "upstream_error", o.status_code,
                                  last, sleeps)
                   [] effect = "untyped_retry"
                        -> Raised("RuntimeError", "Chat completion failed after retries", 0,
                                  last, sleeps)
                   [] OTHER
                        -> Raised(IF o.kind = "empty_choices" THEN "IndexError"
                                  ELSE "JSONDecodeError", None, 0, last, sleeps)

\* one call of ChatCompletionLLMClient.generate
ClientCall(has_httpx, api_key, max_retries, script) ==
    /\ LET result == ClientGenerate(has_httpx, api_key, max_retries, script)
       IN stage_last' = [op |-> "ChatCompletionLLMClient.generate", status |-> result.status,
                         has_httpx |-> has_httpx, api_key |-> api_key,
                         max_retries |-> max_retries, script |-> script, result |-> result]
    /\ UNCHANGED <<recent_dark, recent_attractors, plan_calls, store, llm_configured,
                   api_last, drift_last, narr_last, ground_last, in_flight>>

\* validate_prose(paragraph, grounding_pack) for a paragraph written to fail the checks named
\* in failing and to pass the others
ValidateCall(failing, grounding_pack) ==
    /\ LET paragraph ==
               (IF "single_paragraph" \in failing THEN <<NL>> ELSE <<>>)
            \o (IF "no_second_person" \in failing THEN <<"You", SP>> ELSE <<>>)
            \o (IF "conclusion_markers" \in failing THEN <<"In", SP, "essence", SP>> ELSE <<>>)
            \o (IF "visual_facts" \in failing THEN <<>>
                ELSE JoinTexts(<<",", SP>>, grounding_pack.visual_facts) \o <<".", SP>>)
            \o (IF "scale_shift_cue" \in failing THEN <<>> ELSE <<"micron", SP>>)
            \o WordsText(IF "word_count" \in failing THEN ShortWords ELSE MinWords, SP)
       IN stage_last' = [op |-> "validate_prose", status |-> "returned",
                         failing |-> failing, paragraph |-> paragraph,
                         grounding_pack |-> grounding_pack,
                         result |-> ValidateProse(paragraph, grounding_pack)]
    /\ UNCHANGED <<recent_dark, recent_attractors, plan_calls, store, llm_configured,
                   api_last, drift_last, narr_last, ground_last, in_flight>>

\* packs of every size up to that of the test pack: its first k visual facts
CoveragePacks ==
    LET pack == CHOOSE p \in StageInputs.prose_packs : TRUE
    IN { [pack EXCEPT !.visual_facts = Take(@, k)] : k \in 0..Len(pack.visual_facts) }

\* validate_prose(paragraph, grounding_pack) for a paragraph that quotes every visual fact of
\* the pack and passes the five other checks
ValidateCoverageCall(grounding_pack) ==
    /\ LET paragraph == JoinTexts(<<",", SP>>, grounding_pack.visual_facts)
                            \o <<".", SP, "micron", SP>> \o WordsText(MinWords, SP)
       IN stage_last' = [op |-> "validate_prose of full coverage", status |-> "returned",
                         paragraph |-> paragraph, grounding_pack |-> grounding_pack,
                         result |-> ValidateProse(paragraph, grounding_pack)]
    /\ UNCHANGED <<recent_dark, recent_attractors, plan_calls, store, llm_configured,
                   api_last, drift_last, narr_last, ground_last, in_flight>>

\* the caller takes the result
StageDone ==
    /\ stage_last.status # "idle"
    /\ stage_last' = StageIdle
    /\ UNCHANGED <<recent_dark, recent_attractors, plan_calls, store, llm_configured,
                   api_last, drift_last, narr_last, ground_last, in_flight>>

NextStage ==
    \/ /\ stage_last.status = "idle"
       /\ \E has_client \in BOOLEAN, reply \in StageInputs.outline_replies,
             grounding_pack \in StageInputs.packs, concept_path \in StageInputs.paths,
             fragments \in StageInputs.fragments, min_facts \in {0, 6} :
             /\ (~has_client => reply.kind = "text")
             /\ OutlineCall(has_client, reply, grounding_pack, concept_path, fragments,
                            min_facts)
    \/ /\ stage_last.status = "idle"
       /\ \E has_client \in BOOLEAN, script \in [1..2 -> StageInputs.prose_replies],
             grounding_pack \in StageInputs.prose_packs, concept_path \in StageInputs.paths :
             /\ (~has_client => \A k \in 1..2 : script[k].text = "valid")
             /\ ProseCall(has_client, script,
                          FallbackOutline(grounding_pack, concept_path, <<>>, 0),
                          grounding_pack)
    \/ /\ stage_last.status = "idle"
       /\ \E has_httpx \in BOOLEAN, api_key \in {<<>>, <<SP>>, <<SP, "sk-test", NL>>},
             max_retries \in 0..MaxClientRetries :
             \E script \in [1..max_retries -> HttpOutcomes] :
                /\ (~has_httpx => api_key # <<>> /\ max_retries = 0)
                /\ ClientCall(has_httpx, api_key, max_retries, script)
    \/ /\ stage_last.status = "idle"
       /\ \E failing \in SUBSET {"word_count", "single_paragraph", "no_second_person",
                                 "visual_facts", "conclusion_markers", "scale_shift_cue"},
             grounding_pack \in StageInputs.prose_packs :
             ValidateCall(failing, grounding_pack)
    \/ /\ stage_last.status = "idle"
       /\ \E grounding_pack \in CoveragePacks : ValidateCoverageCall(grounding_pack)
    \/ StageDone

SpecStage == InitDrift /\ [][NextStage]_vars

----------------------------------------------------------------------------
(* Properties of the narration service (SpecNarr).                         *)

\* C1: when every generation attempt of the backend returns text, and when no backend
\* is configured, narrate returns, and what it returns is a paragraph of 250 to 350
\* whitespace-separated words with no newline and no carriage return in it
C1_ParagraphContract ==
    (/\ narr_last.status # "idle"
     /\ \/ ~llm_configured
        \/ \A k \in DOMAIN narr_last.script : narr_last.script[k].kind = "text")
        => /\ narr_last.status = "returned"
           /\ LET paragraph == narr_last.result.paragraph_text
              IN /\ 250 <= WordCount(paragraph)
                 /\ WordCount(paragraph) <= 350
                 /\ \A i \in DOMAIN paragraph : paragraph[i] # NL /\ paragraph[i] # CR

\* four invalid texts in safety mode: the safety variant of the fallback is returned
C1_Witness ==
    /\ narr_last.status = "returned"
    /\ llm_configured
    /\ narr_last.safety_redirect
    /\ \A k \in DOMAIN narr_last.script : narr_last.script[k].kind = "text"
    /\ narr_last.result.source = "fallback"
    /\ Len(narr_last.result.calls) = 4

C16_NarrateAbsorbsBackendFailure ==
    (/\ narr_last.status # "idle"
     /\ llm_configured
     /\ \E k \in DOMAIN narr_last.script :
           /\ narr_last.script[k].kind = "raise"
           /\ \A j \in 1..(k - 1) : /\ narr_last.script[j].kind = "text"
                                    /\ ~ValidBackendText[narr_last.script[j].text])
        => /\ narr_last.status = "returned"
           /\ narr_last.result.source = "fallback"
           /\ 250 <= WordCount(narr_last.result.paragraph_text)
           /\ WordCount(narr_last.result.paragraph_text) <= 350
           /\ \A i \in DOMAIN narr_last.result.paragraph_text :
                 narr_last.result.paragraph_text[i] # NL
           /\ narr_last.result.path_used = narr_last.path

\* C23: the fallback variant follows safety_redirect alone: a narrate call that returns the
\* local fallback returns the safety paragraph (the one about the dossier and anonymity) when
\* safety_redirect is set and the plain paragraph when it is not; without safety_redirect
\* the safety paragraph is never what narrate returns
C23_FallbackVariantBySafety ==
    (narr_last.status = "returned") =>
        LET paragraph == narr_last.result.paragraph_text
            safety_text == NormalizedFallbackText[TRUE]
            plain_text == NormalizedFallbackText[FALSE]
        IN  /\ safety_text # plain_text
            /\ Contains(safety_text, "dossier") /\ Contains(safety_text, "Anonymity")
            /\ ~Contains(plain_text, "dossier") /\ ~Contains(plain_text, "Anonymity")
            /\ narr_last.result.source = "fallback" =>
                  paragraph = IF narr_last.safety_redirect THEN safety_text ELSE plain_text
            /\ ~narr_last.safety_redirect => paragraph # safety_text

\* the safety paragraph returned with a backend whose four outputs all failed validation
C23_Witness ==
    /\ narr_last.status = "returned"
    /\ narr_last.safety_redirect
    /\ narr_last.result.source = "fallback"
    /\ Len(narr_last.result.calls) = MaxAttempts
    /\ narr_last.result.paragraph_text = NormalizedFallbackText[TRUE]
    /\ Contains(narr_last.result.paragraph_text, "dossier")

C40_SafetyPromptsIgnoreDescriptors ==
    (narr_last.status # "idle" /\ narr_last.safety_redirect) =>
        \A descriptors \in NarrationDescriptors :
            NarrateResult(llm_configured, narr_last.script, WireLabel, descriptors,
                          "FEEDBACK_CONTROL", narr_last.path,
                          Retrieve(WireLabel, "FEEDBACK_CONTROL"), TRUE,
                          narr_last.ending_draw).calls
               = narr_last.result.calls

\* a safety-redirected narrate given the scene descriptors of a grounding, whose backend
\* was called at every attempt
C40_Witness ==
    /\ narr_last.status = "returned"
    /\ narr_last.safety_redirect
    /\ narr_last.descriptors = SceneDescriptors
    /\ Len(narr_last.result.calls) = MaxAttempts
    /\ narr_last.result.calls[1].system_prompt = SafetySystemPrompt
    /\ narr_last.result.calls[MaxAttempts].user_prompt # narr_last.result.calls[1].user_prompt

----------------------------------------------------------------------------
(* Properties of the drift engine (SpecDrift).                             *)

\* C2: the concept path a plan call returns has 6 to 12 hops, every relation in it is
\* an allowed relation, and at least one hop has relation scaled_to
C2_PlanPathContract ==
    (drift_last.op = "plan" /\ drift_last.error = None) =>
        LET path == drift_last.concept_path
        IN /\ 6 <= Len(path)
           /\ Len(path) <= 12
           /\ \A i \in DOMAIN path : path[i].rel \in ALLOWED_RELATIONS
           /\ \E i \in DOMAIN path : path[i].rel = "scaled_to"

\* a forced-safe plan whose chain kept its attractor hop and all ten hops
C2_Witness ==
    /\ drift_last.op = "plan"
    /\ drift_last.error = None
    /\ drift_last.force_safe
    /\ drift_last.attractor # None
    /\ Len(drift_last.concept_path) = 10
    /\ recent_attractors # <<>>

\* C8: choose_domain gives the dark domain 0.3 times its static weight exactly when
\* the dark decisions among the recorded plan calls, divided by the window size 20,
\* exceed 0.35, and its static weight otherwise; the weight it gives is positive
C8_DampingByWindowSize ==
    (drift_last.op = "choose_domain" /\ drift_last.previous # "MYSTERIOUS_EVENTS") =>
        /\ drift_last.weights["MYSTERIOUS_EVENTS"]
              = (IF DarkCount(recent_dark) * 100 > 35 * 20 THEN 105 ELSE 350)
        /\ drift_last.weights["MYSTERIOUS_EVENTS"] > 0

\* C10: a plan call returns dark_flag = (domain is MYSTERIOUS_EVENTS and not
\* force_safe), and appends that value to the dark window, which keeps the last 20
C10_DarkFlagRecorded ==
    [][(drift_last'.op = "plan" /\ drift_last'.error = None /\ plan_calls' = plan_calls + 1)
          => LET flag == (drift_last'.domain = "MYSTERIOUS_EVENTS" /\ ~drift_last'.force_safe)
             IN /\ drift_last'.dark_flag = flag
                /\ recent_dark' = (IF Len(recent_dark) < 20
                                   THEN Append(recent_dark, flag)
                                   ELSE Append(Tail(recent_dark), flag))]_vars

\* twenty plan calls in a row with MYSTERIOUS_EVENTS and force_safe = false
C10_Witness ==
    /\ plan_calls = 20
    /\ Len(recent_dark) = 20
    /\ \A i \in DOMAIN recent_dark : recent_dark[i]
    /\ drift_last.op = "plan"
    /\ drift_last.domain = "MYSTERIOUS_EVENTS"
    /\ ~drift_last.force_safe
    /\ drift_last.dark_flag

\* C11: in the concept path a plan call returns, at least 60% of the hops after the
\* first two have a node that contains the first ten characters of the domain's
\* signal text
C11_DomainCommitment ==
    (drift_last.op = "plan" /\ drift_last.error = None) =>
        LET path == drift_last.concept_path
            after == {i \in DOMAIN path : i > 2}
            hits == {i \in after : SignalPrefixIn(drift_last.domain, path[i].node)}
        IN Cardinality(hits) * 10 >= 6 * Cardinality(after)

\* C26: the attractor of a plan belongs to the pool of the plan's domain and is not in the
\* attractor window as it is when plan is called; when every attractor of the pool is in
\* that window, or the pool is empty, the plan has no attractor and leaves the window as
\* it is
C26_AttractorFreshFromPool ==
    [][(drift_last'.op = "plan" /\ plan_calls' = plan_calls + 1) =>
          LET pool == Range(ATTRACTORS[drift_last'.domain])
              attractor == drift_last'.attractor
          IN  /\ attractor # None =>
                    /\ attractor \in pool
                    /\ attractor \notin Range(recent_attractors)
              /\ pool \subseteq Range(recent_attractors) =>
                    /\ attractor = None
                    /\ recent_attractors' = recent_attractors]_vars

\* a second MYSTERIOUS_EVENTS plan: the only attractor of the pool is in the window, the
\* plan has none
C26_Witness ==
    /\ drift_last.op = "plan"
    /\ drift_last.error = None
    /\ drift_last.domain = "MYSTERIOUS_EVENTS"
    /\ drift_last.attractor = None
    /\ recent_attractors = <<"Pauli Effect">>
    /\ plan_calls = 2

\* C27: the dark window never holds more than 20 entries and the attractor window never
\* more than 3; a plan call's entry goes to the end of its window, the entries before it
\* keep their order, and when the window is full exactly the oldest entry leaves
C27_WindowsBounded ==
    [][/\ Len(recent_dark') <= 20
       /\ Len(recent_attractors') <= 3
       /\ recent_dark' # recent_dark =>
             /\ recent_dark'[Len(recent_dark')] = drift_last'.dark_flag
             /\ IF Len(recent_dark) < 20
                THEN SubSeq(recent_dark', 1, Len(recent_dark') - 1) = recent_dark
                ELSE SubSeq(recent_dark', 1, 19) = SubSeq(recent_dark, 2, 20)
       /\ recent_attractors' # recent_attractors =>
             /\ recent_attractors'[Len(recent_attractors')] = drift_last'.attractor
             /\ IF Len(recent_attractors) < 3
                THEN SubSeq(recent_attractors', 1, Len(recent_attractors') - 1)
                        = recent_attractors
                ELSE SubSeq(recent_attractors', 1, 2) = SubSeq(recent_attractors, 2, 3)]_vars

\* the fourth plan call in a row that picked an attractor: the window is full and holds
\* the attractors of the last three calls
C27_Witness ==
    /\ plan_calls = 4
    /\ Len(recent_dark) = 4
    /\ Len(recent_attractors) = 3
    /\ drift_last.op = "plan"
    /\ drift_last.error = None
    /\ drift_last.attractor = recent_attractors[3]

\* C29: only plan changes the state of the drift engine: a plan call that returns adds one
\* entry to the dark window, and one entry to the attractor window if and only if it
\* selected an attractor; choose_domain (and a plan call that raises) leaves both windows
\* as they are
C29_OnlyPlanMutatesDrift ==
    [][/\ plan_calls' = plan_calls =>
             /\ recent_dark' = recent_dark
             /\ recent_attractors' = recent_attractors
       /\ drift_last'.op = "choose_domain" =>
             /\ recent_dark' = recent_dark
             /\ recent_attractors' = recent_attractors
       /\ plan_calls' # plan_calls =>
             /\ drift_last'.op = "plan"
             /\ drift_last'.error = None
             /\ IF Len(recent_dark) < DarkWindowLen
                THEN Len(recent_dark') = Len(recent_dark) + 1
                ELSE Tail(recent_dark) = SubSeq(recent_dark', 1, DarkWindowLen - 1)
             /\ drift_last'.attractor = None <=> recent_attractors' = recent_attractors
             /\ drift_last'.attractor # None =>
                   /\ recent_attractors'[Len(recent_attractors')] = drift_last'.attractor
                   /\ Len(recent_attractors')
                         = Min(Len(recent_attractors) + 1, AttractorWindowLen)]_vars

\* a choose_domain call made between two plan calls, the windows holding the first plan's
\* entries
C29_Witness ==
    /\ drift_last.op = "choose_domain"
    /\ plan_calls = 1
    /\ Len(recent_dark) = 1
    /\ Len(recent_attractors) = 1

\* C33: a plan that reports an attractor returns a concept path with a
\* historically_entangled_with hop whose node is that attractor: the truncation does not
\* drop the attractor hop
C33_AttractorHopKept ==
    (drift_last.op = "plan" /\ drift_last.error = None /\ drift_last.attractor # None) =>
        \E i \in DOMAIN drift_last.concept_path :
            /\ drift_last.concept_path[i].rel = "historically_entangled_with"
            /\ drift_last.concept_path[i].node = <<drift_last.attractor>>

\* C34: every concept path plan returns ends with the feeds hop into "scene-level return
\* signal": the truncation does not remove it
C34_ClosingHopKept ==
    (drift_last.op = "plan" /\ drift_last.error = None) =>
        LET path == drift_last.concept_path
        IN  /\ path # <<>>
            /\ path[Len(path)] = Hop(<<"scene-level return signal">>, "feeds")

\* C37: plan never raises for the structure of its path: whatever the domain, the attractor
\* and the truncation draw, the chain has 8, 9 or 10 hops and keeps its scaled_to hop, so
\* the call returns and puts its dark flag into the dark window
C37_PlanAlwaysSucceeds ==
    [][drift_last'.op = "plan" =>
          /\ drift_last'.error = None
          /\ Len(drift_last'.concept_path) \in 8..10
          /\ drift_last'.concept_path[6].rel = "scaled_to"
          /\ plan_calls' = plan_calls + 1
          /\ recent_dark' # <<>>
          /\ recent_dark'[Len(recent_dark')] = drift_last'.dark_flag
          /\ Len(recent_dark') = Min(Len(recent_dark) + 1, 20)]_vars

\* a plan without attractor whose chain was cut to 8 hops
C37_Witness ==
    /\ drift_last.op = "plan"
    /\ drift_last.error = None
    /\ drift_last.attractor = None
    /\ Len(drift_last.concept_path) = 8
    /\ drift_last.concept_path[8].rel = "constrained_by"
    /\ Len(recent_dark) = 2

\* C39: the commitment repair inside plan rewrites node labels only: compared with the
\* chain as built and truncated, the returned path has the same length, the same relation
\* at every hop, and the same node at the first three hops, at the scaled_to hop and at
\* the final hop; a node that differs is the old one behind the domain's signal text
C39_RepairKeepsStructure ==
    (drift_last.op = "plan" /\ drift_last.error = None) =>
        LET path == drift_last.concept_path
            built == Take(PlanChain(drift_last.anchor, drift_last.domain,
                                    drift_last.attractor), Len(path))
        IN  /\ Len(built) = Len(path)
            /\ \A i \in DOMAIN path :
                  /\ path[i].rel = built[i].rel
                  /\ (i <= 3 \/ i = Len(path) \/ built[i].rel = "scaled_to")
                        => path[i] = built[i]
                  /\ path[i].node # built[i].node
                        => path[i].node = <<DomainSignal[drift_last.domain], " ">>
                                             \o built[i].node

\* a ten-hop plan whose commitment was below 0.6: the fourth hop carries the signal text
\* twice, the attractor hop once, the closing hop is as built
C39_Witness ==
    /\ drift_last.op = "plan"
    /\ drift_last.error = None
    /\ drift_last.attractor # None
    /\ Len(drift_last.concept_path) = 10
    /\ drift_last.concept_path[4].node
          = <<DomainSignal[drift_last.domain], " ", DomainSignal[drift_last.domain],
              " dynamics">>
    /\ drift_last.concept_path[9].node
          = <<DomainSignal[drift_last.domain], " ", drift_last.attractor>>
    /\ drift_last.concept_path[10].node = <<"scene-level return signal">>

----------------------------------------------------------------------------
(* Properties of the drift engine under concurrent requests (SpecInFlight). *)

\* C17: requests running at the same time use the drift engine one after another, a
\* plan call's read of the attractor window and its appends being one atomic step: no
\* request picks an attractor that another request in flight has picked and not yet
\* appended, so the attractor window never holds the same attractor twice
C17_SerializedDriftAccess ==
    /\ \A i, j \in DOMAIN recent_attractors :
          i # j => recent_attractors[i] # recent_attractors[j]
    /\ \A t, u \in DOMAIN in_flight :
          (/\ t # u
           /\ in_flight[t].pc \in {"picked", "dark_appended"}
           /\ in_flight[u].pc \in {"picked", "dark_appended"})
              => \/ in_flight[t].attractor = None
                 \/ in_flight[t].attractor # in_flight[u].attractor

----------------------------------------------------------------------------
(* Properties of the two-stage pipeline (SpecStage).                       *)

\* C18: generate_prose_stage2 calls the backend at most twice.  The second call is made
\* exactly when the first returned a paragraph that fails validation, and its prompt is
\* the repair prompt, which names each violation of that paragraph and restates every
\* grounding fact; the paragraph of the second call is returned with the violations
\* validation finds in it, passed or not, and no third call is made
C18_OneRepairAttempt ==
    (stage_last.op = "generate_prose_stage2") =>
        LET script == stage_last.script
            result == stage_last.result
            calls == result.calls
            pack == stage_last.grounding_pack
            Text(k) == StageInputs.prose_normalized[script[k].text]
            Fails(k) == script[k].kind = "text" /\ ValidateProse(Text(k), pack) # <<>>
            Passes(k) == script[k].kind = "text" /\ ValidateProse(Text(k), pack) = <<>>
        IN /\ Len(calls) <= 2
           /\ ~stage_last.has_client => Len(calls) = 0
           /\ stage_last.has_client =>
                 /\ Len(calls) >= 1
                 /\ calls[1].user_prompt
                       = <<"build_stage2_user_prompt", stage_last.outline, pack>>
                 /\ Len(calls) = 2 <=> Fails(1)
                 /\ Passes(1) => /\ result.status = "returned"
                                 /\ result.paragraph_text = Text(1)
                                 /\ result.validation_passed
                                 /\ result.violations = <<>>
                 /\ Fails(1) =>
                       /\ \A v \in Range(ValidateProse(Text(1), pack)) :
                             Contains(calls[2].user_prompt, v)
                       /\ \A k \in DOMAIN pack.visual_facts :
                             \E i \in 1..(Len(calls[2].user_prompt)
                                             - Len(pack.visual_facts[k]) + 1) :
                                SubSeq(calls[2].user_prompt, i,
                                       i + Len(pack.visual_facts[k]) - 1)
                                    = pack.visual_facts[k]
                       /\ calls[2].system_prompt = calls[1].system_prompt
                       /\ script[2].kind = "text" =>
                             /\ result.status = "returned"
                             /\ result.paragraph_text = Text(2)
                             /\ result.violations = ValidateProse(Text(2), pack)
                             /\ result.validation_passed <=> Passes(2)

\* the first paragraph has no scale-shift cue, the repaired one is too short and is
\* returned with its own three violations
C18_Witness ==
    /\ stage_last.op = "generate_prose_stage2"
    /\ stage_last.has_client
    /\ stage_last.status = "returned"
    /\ Len(stage_last.result.calls) = 2
    /\ ~stage_last.result.validation_passed
    /\ stage_last.result.violations = <<"word_count", "visual_facts", "scale_shift_cue">>
    /\ stage_last.script[1].text = "no_cue"

\* C19: generate_outline returns an outline and raises nothing, whether there is no
\* backend, the backend call fails, or the backend's output is not an outline; in those
\* cases what it returns is the outline built from the inputs (first six facts, the
\* first six hops with their evidence).  Stated for an OutlinePlan declaration that
\* accepts any number of facts, so that only the code of generate_outline decides it.
C19_OutlineNeverFails ==
    (stage_last.op = "generate_outline" /\ stage_last.min_facts = 0)
        => /\ stage_last.status = "returned"
           /\ (~stage_last.has_client \/ stage_last.reply.kind # "json")
                 => /\ stage_last.result.visual_facts_used
                         = Take(stage_last.grounding_pack.visual_facts, 6)
                    /\ Len(stage_last.result.hop_trace)
                         = Len(Take(stage_last.concept_path, 6))

\* C20: for every pack the grounding service builds (5 to 12 facts), generate_outline
\* returns an outline, the one built from the inputs included, and that outline lists at
\* least 6 visual facts (calls in which the backend itself raises are left to C19)
C20_OutlineListsSixFacts ==
    (/\ stage_last.op = "generate_outline"
     /\ ~(stage_last.has_client /\ stage_last.reply.kind = "raise")
     /\ Len(stage_last.grounding_pack.visual_facts) \in 5..12)
        => /\ stage_last.status = "returned"
           /\ Len(stage_last.result.visual_facts_used) >= 6

\* C24: validate_prose returns exactly the names of the failed checks, in the order
\* word_count, single_paragraph, no_second_person, visual_facts, conclusion_markers,
\* scale_shift_cue: whatever subset of the six checks a paragraph fails, each of them is
\* reported whether or not the others fail, and the list is empty exactly when all six pass;
\* the list generate_prose_stage2 reports is such a list, empty iff validation_passed
C24_ViolationsInFixedOrder ==
    LET order == <<"word_count", "single_paragraph", "no_second_person", "visual_facts",
                   "conclusion_markers", "scale_shift_cue">>
        Ordered(list) == \E pick \in SUBSET DOMAIN order :
                            list = SelectSeq(order, LAMBDA n : \E k \in pick : order[k] = n)
    IN  /\ stage_last.op = "validate_prose" =>
              /\ stage_last.result
                    = SelectSeq(order, LAMBDA n : n \in stage_last.failing)
              /\ stage_last.result = <<>> <=> stage_last.failing = {}
        /\ (stage_last.op = "generate_prose_stage2" /\ stage_last.status = "returned") =>
              /\ Ordered(stage_last.result.violations)
              /\ stage_last.result.validation_passed
                    <=> stage_last.result.violations = <<>>

\* a paragraph that fails the first, the third and the last check and passes the others
C24_Witness ==
    /\ stage_last.op = "validate_prose"
    /\ stage_last.failing = {"word_count", "no_second_person", "scale_shift_cue"}
    /\ stage_last.result = <<"word_count", "no_second_person", "scale_shift_cue">>
    /\ Contains(stage_last.paragraph, "You")

\* C38 as stated: for every pack, the required number of referenced facts,
\* min(6, max(3, fact_count)), does not exceed the number of facts of the pack, and a
\* paragraph that quotes every fact is not flagged visual_facts
C38_RequiredHitsWithinFacts ==
    stage_last.op = "validate_prose of full coverage" =>
        LET fact_count == Len(stage_last.grounding_pack.visual_facts)
        IN  /\ Min(6, Max(3, fact_count)) <= fact_count
            /\ ~Contains(stage_last.result, "visual_facts")

\* C38, amended: for every pack of at least three visual facts, the required number of
\* referenced facts, min(6, max(3, fact_count)), does not exceed the number of facts of the
\* pack, and a paragraph that quotes every fact is not flagged visual_facts
C38_RequiredHitsWithinThreeOrMoreFacts ==
    (/\ stage_last.op = "validate_prose of full coverage"
     /\ Len(stage_last.grounding_pack.visual_facts) >= 3) =>
        LET fact_count == Len(stage_last.grounding_pack.visual_facts)
        IN  /\ Min(6, Max(3, fact_count)) <= fact_count
            /\ ~Contains(stage_last.result, "visual_facts")
            /\ stage_last.result = <<>>

\* a pack of exactly three facts, all quoted: three hits are required and three are found
C38_Witness ==
    /\ stage_last.op = "validate_prose of full coverage"
    /\ Len(stage_last.grounding_pack.visual_facts) = 3
    /\ stage_last.result = <<>>
    /\ Contains(stage_last.paragraph, "oily")

\* C21: ChatCompletionLLMClient.generate makes at most max_retries HTTP attempts and returns
\* on the first success; a missing key or a 401 response aborts at once with the typed error,
\* with no further attempt and no sleep after it; every other failed attempt that is not the
\* last allowed one is followed by a sleep of min(2^(attempt-1), 4) seconds plus a jitter below
\* 0.2 s and by another attempt; no sleep follows the final attempt; after exhaustion the
\* last error is raised, the typed one if it was typed and the generic failure otherwise.
C21_BoundedRetries ==
    (stage_last.op = "ChatCompletionLLMClient.generate" /\ stage_last.has_httpx) =>
        LET script == stage_last.script
            result == stage_last.result
            n == result.attempts
            max_retries == stage_last.max_retries
            key_missing == \A i \in DOMAIN stage_last.api_key : IsSpace(stage_last.api_key[i])
            Success(i) == script[i].kind = "response_ok"
            Unauthorized(i) == script[i].kind = "response_status"
                                  /\ script[i].status_code = 401
            Typed(i) == script[i].kind = "response_status"
                           /\ script[i].status_code \in {401, 429, 500, 502, 503, 504}
        IN  /\ n \in 0..max_retries
            /\ Len(result.sleeps) = IF n = 0 THEN 0 ELSE n - 1
            /\ key_missing =>
                  /\ n = 0
                  /\ result.status = "raised"
                  /\ result.exception = "OpenAIClientError"
                  /\ result.error_type = "missing_key"
            /\ ~key_missing =>
                  \* every attempt before the last one failed, was slept on and retried
                  /\ \A i \in 1..(n - 1) :
                        /\ ~Success(i) /\ ~Unauthorized(i)
                        /\ result.sleeps[i] >= Min(2 ^ (i - 1), 4) * 1000
                        /\ result.sleeps[i] < Min(2 ^ (i - 1), 4) * 1000 + 200
                  \* the call ends on a success, on a 401, or with the attempts used up
                  /\ n = max_retries \/ (n >= 1 /\ (Success(n) \/ Unauthorized(n)))
                  /\ (n >= 1 /\ Success(n)) <=> result.status = "returned"
                  /\ (n >= 1 /\ Unauthorized(n)) =>
                        /\ result.exception = "OpenAIClientError"
                        /\ result.error_type = "openai_401"
                  /\ (n >= 1 /\ ~Success(n)) =>
                        /\ result.status = "raised"
                        /\ IF Typed(n)
                              THEN /\ result.exception = "OpenAIClientError"
                                   /\ result.status_code = script[n].status_code
                              ELSE /\ result.exception = "RuntimeError"
                                   /\ result.error_type
                                        = "Chat completion failed after retries"
                  /\ n = 0 =>
                        /\ result.status = "raised"
                        /\ result.exception = "RuntimeError"

\* C30: the deterministic outline has one evidence entry for each hop of the concept path;
\* with n >= 1 retrieval fragments, hop i (counted from 0) carries fragment i mod n, the
\* fragments being cycled when there are fewer of them than hops; with no fragment every
\* hop carries the anchor description
C30_EvidenceCycles ==
    (/\ stage_last.op = "generate_outline"
     /\ stage_last.status = "returned"
     /\ (~stage_last.has_client \/ stage_last.reply.kind = "text")) =>
        LET hop_trace == stage_last.result.hop_trace
            fragments == stage_last.fragments
        IN  /\ Len(hop_trace) = Len(stage_last.concept_path)
            /\ \A k \in DOMAIN hop_trace :
                  hop_trace[k].evidence
                     = IF fragments # <<>>
                       THEN fragments[((k - 1) % Len(fragments)) + 1]
                       ELSE stage_last.grounding_pack.anchor_description

----------------------------------------------------------------------------
(* Properties of the grounding service (SpecGround).                       *)

\* C5: when the provider's reply has safety_face_or_plate = true, the GroundingResult
\* that ground returns has safety_face_or_plate = true
C5_SafetyFlagSurvivesGrounding ==
    (/\ ground_last.status = "returned"
     /\ ground_last.provider.kind = "response"
     /\ ground_last.provider.parsed.safety_face_or_plate)
        => ground_last.result.safety_face_or_plate

\* C31: for every non-empty image build_grounding_pack returns a pack; its label is the
\* provider's label only when the provider call succeeded with a confidence of at least
\* 0.45 and the pack has at least 5 distinct facts; when the confidence is below 0.45 or
\* the provider failed, the label is the generic fallback token and low_confidence is true
C31_LabelByConfidence ==
    (ground_last.status # "idle" /\ ground_last.image.kind \notin {"none", "empty"}) =>
        LET provider == ground_last.provider
            pack == ground_last.pack
            confident == /\ provider.kind = "response"
                         /\ provider.parsed.confidence >= 45
        IN  /\ ground_last.status = "returned"
            /\ ~confident => /\ pack.anchor_label = <<"unknown">>
                             /\ pack.low_confidence
            /\ pack.anchor_label # <<"unknown">> =>
                  /\ confident
                  /\ pack.anchor_label = provider.parsed.object_label
                  /\ ~pack.low_confidence
                  /\ Len(pack.visual_facts) >= 5
                  /\ \A i, j \in DOMAIN pack.visual_facts :
                        i # j => pack.visual_facts[i] # pack.visual_facts[j]

----------------------------------------------------------------------------
(* Properties of the handlers (Spec).                                      *)

\* C3: the concept path of every stored trace has 6 to 12 hops, only allowed
\* relations, and at least one scaled_to hop
C3_TracePathContract ==
    \A i \in DOMAIN store :
        LET path == JsonLoadsHops(store[i].concept_path)
        IN /\ 6 <= Len(path)
           /\ Len(path) <= 12
           /\ \A k \in DOMAIN path : path[k].rel \in ALLOWED_RELATIONS
           /\ \E k \in DOMAIN path : path[k].rel = "scaled_to"

\* C12: when generate or deepen answers with a trace id, the store holds a row with that
\* id, and get_trace of the id returns a record whose object label, domain, concept
\* path (same hops in the same order), safety flag and dark flag equal those of the
\* record the handler inserted
C12_TraceRoundTrip ==
    (api_last.status_code = 200) =>
        LET inserted == api_last.trace
            read == GetTrace(store, api_last.trace_id)
        IN /\ \E i \in DOMAIN store : store[i].trace_id = UuidStr(api_last.trace_id)
           /\ inserted.trace_id = api_last.trace_id
           /\ read # NoTrace
           /\ read.object_label = inserted.object_label
           /\ read.vector_domain = inserted.vector_domain
           /\ Len(read.concept_path) = Len(inserted.concept_path)
           /\ \A k \in DOMAIN inserted.concept_path :
                 /\ read.concept_path[k].node = inserted.concept_path[k].node
                 /\ read.concept_path[k].rel = inserted.concept_path[k].rel
           /\ read.safety_flag = inserted.safety_flag
           /\ read.dark_flag = inserted.dark_flag

\* a deepen answered with the id of a dark ten-hop trace, the second trace of the store
C12_Witness ==
    /\ api_last.op = "deepen"
    /\ api_last.status_code = 200
    /\ api_last.trace.dark_flag
    /\ ~api_last.trace.safety_flag
    /\ Len(api_last.trace.concept_path) = 10
    /\ Len(store) = 2
    /\ api_last.trace_id = 2

\* C13: a deepen call whose trace id no stored trace has is answered 404 "trace_id not
\* found", and the call inserts no trace and leaves both drift windows as they were
C13_DeepenUnknownId ==
    [][(/\ api_last'.op = "deepen"
        /\ \A i \in DOMAIN store : store[i].trace_id # UuidStr(api_last'.request.trace_id))
          => /\ api_last'.status_code = 404
             /\ api_last'.error_type = "trace_id not found"
             /\ api_last'.trace_id = NoId
             /\ store' = store
             /\ recent_dark' = recent_dark
             /\ recent_attractors' = recent_attractors]_vars

\* a deepen with an unknown id answered 404 while the store holds a trace and the drift
\* windows hold the plan made for it
C13_Witness ==
    /\ api_last.op = "deepen"
    /\ api_last.status_code = 404
    /\ api_last.request.trace_id = 2
    /\ Len(store) = 1
    /\ Len(recent_dark) = 1
    /\ recent_attractors # <<>>

\* C22: stored traces are immutable: no generate or deepen call modifies or removes a row of
\* the store; a call answered 200 adds exactly one row, whose identifier no earlier row has
\* and which is the identifier returned (for deepen it differs from the identifier asked
\* for); a call answered otherwise adds none
C22_TracesImmutable ==
    [][/\ Len(store') >= Len(store)
       /\ SubSeq(store', 1, Len(store)) = store
       /\ api_last'.status_code = 200 =>
             /\ Len(store') = Len(store) + 1
             /\ \A i \in DOMAIN store : store[i].trace_id # store'[Len(store')].trace_id
             /\ store'[Len(store')].trace_id = UuidStr(api_last'.trace_id)
             /\ api_last'.op = "deepen" => api_last'.trace_id # api_last'.request.trace_id
       /\ api_last'.status_code # 200 => store' = store]_vars

\* a deepen answered 200 whose new trace sits behind the unchanged trace it read
C22_Witness ==
    /\ api_last.op = "deepen"
    /\ api_last.status_code = 200
    /\ Len(store) = 2
    /\ store[1].trace_id = UuidStr(api_last.request.trace_id)
    /\ store[2].trace_id = UuidStr(api_last.trace_id)
    /\ store[1].trace_id # store[2].trace_id

\* C28: a generate call whose grounding is safety-flagged, and a deepen call on a
\* safety-flagged trace, do not use the drift engine: both windows are after the call what
\* they were before it
C28_SafetyBypassesDrift ==
    [][(\/ /\ api_last'.op = "generate"
           /\ api_last'.request.grounded
           /\ api_last'.request.safety_face_or_plate
        \/ /\ api_last'.op = "deepen"
           /\ GetTrace(store, api_last'.request.trace_id) # NoTrace
           /\ GetTrace(store, api_last'.request.trace_id).safety_flag)
          => /\ ~api_last'.used_drift
             /\ recent_dark' = recent_dark
             /\ recent_attractors' = recent_attractors
             /\ plan_calls' = plan_calls]_vars

\* a deepen answered for a safety-flagged trace after a plan call made for another
\* request: the windows still hold just that plan's entries
C28_Witness ==
    /\ api_last.op = "deepen"
    /\ api_last.status_code = 200
    /\ GetTrace(store, api_last.request.trace_id).safety_flag
    /\ ~api_last.used_drift
    /\ plan_calls = 1
    /\ Len(recent_dark) = 1

\* C35: a generate call that fails during narration (answered 502 for the upstream error)
\* has no lasting effect: the store, the dark window and the attractor window are after the
\* call what they were before it
C35_FailedGenerateLeavesNoEffect ==
    [][(api_last'.op = "generate" /\ api_last'.status_code = 502)
          => /\ store' = store
             /\ recent_dark' = recent_dark
             /\ recent_attractors' = recent_attractors]_vars

\* C36: every stored trace has dark_flag true exactly when its vector domain is in
\* DARK_DOMAINS (MYSTERIOUS_EVENTS), and no safety-flagged stored trace has dark_flag true
C36_DarkFlagMatchesDomain ==
    \A i \in DOMAIN store :
        LET trace == FromRow(store[i])
        IN  /\ trace.dark_flag <=> trace.vector_domain \in DARK_DOMAINS
            /\ trace.safety_flag => ~trace.dark_flag

\* a store holding a dark trace written by generate and, behind it, the trace of a deepen
C36_Witness ==
    /\ Len(store) >= 2
    /\ FromRow(store[1]).vector_domain = "MYSTERIOUS_EVENTS"
    /\ FromRow(store[1]).dark_flag
    /\ ~FromRow(store[1]).safety_flag
    /\ api_last.op = "deepen"
    /\ api_last.status_code = 200
    /\ ~FromRow(store[2]).dark_flag

\* C14: a generate call with no image (or with base64 that does not decode, which is
\* treated as no image) is answered with a client error (4xx) whose type names the
\* missing grounding pack, and stores no trace
C14_MissingImageClientError ==
    (api_last.op = "generate" /\ ~api_last.request.grounded)
        => /\ api_last.status_code \in 400..499
           /\ api_last.error_type = "grounding_pack_missing_image"
           /\ api_last.trace_id = NoId

\* C15: when the backend fails during narration, generate and deepen alike answer 502
\* with error_type missing_key, openai_401 or upstream_error and the upstream status
\* code; no backend failure leaves a handler as an unhandled exception
C15_TypedUpstreamError ==
    (api_last.narrate_called /\ api_last.status_code # 200)
        => /\ api_last.status_code = 502
           /\ api_last.error_type \in {"missing_key", "openai_401", "upstream_error"}
           /\ api_last.error_type = "openai_401" => api_last.upstream_status_code = 401

\* C4: generate, handed a grounding result with safety_face_or_plate = true, calls
\* narrate with safety_redirect = true and not the drift engine, and the trace it
\* stores has domain FEEDBACK_CONTROL, dark_flag false, safety_flag true and the
\* fixed safety path whose first hop is the object label
C4_SafetyOverride ==
    (/\ api_last.op = "generate"
     /\ api_last.request.grounded
     /\ api_last.request.safety_face_or_plate)
        => /\ api_last.narrate_called
           /\ api_last.safety_redirect
           /\ ~api_last.used_drift
           /\ api_last.status_code = 200 =>
                 LET trace == GetTrace(store, api_last.trace_id)
                 IN /\ trace # NoTrace
                    /\ trace.vector_domain = "FEEDBACK_CONTROL"
                    /\ ~trace.dark_flag
                    /\ trace.safety_flag
                    /\ trace.concept_path =
                          << [node |-> api_last.request.object_label, rel |-> "is_a"],
                             [node |-> <<"pattern recognition">>, rel |-> "enabled_by"],
                             [node |-> <<"classification thresholds">>, rel |-> "constrained_by"],
                             [node |-> <<"institutional anonymity">>, rel |-> "embedded_in"],
                             [node |-> <<"ethics of naming">>,
                              rel |-> "historically_entangled_with"],
                             [node |-> <<"scene-level return signal">>, rel |-> "feeds"] >>

\* a safety-flagged generate answered after the drift engine has planned a dark path
C4_Witness ==
    /\ api_last.op = "generate"
    /\ api_last.request.safety_face_or_plate
    /\ api_last.status_code = 200
    /\ Len(store) = 2
    /\ recent_dark = <<TRUE>>

C32_DeepenContinuation ==
    /\ \A h \in {Hop(WireLabel, "is_a"), Hop(<<"scene-level return signal">>, "feeds")} :
          DeepenAnchor(<<h>>) = h.node
    /\ (api_last.op = "deepen" /\ api_last.status_code = 200) =>
          LET previous == GetTrace(store, api_last.request.trace_id)
              trace == GetTrace(store, api_last.trace_id)
              last == Len(previous.concept_path)
              anchor == previous.concept_path[last - 1].node \o <<" / ">>
                            \o previous.concept_path[last].node
          IN  /\ last >= 2
              /\ trace.object_label = previous.object_label
              /\ trace.concept_path[1] = Hop(anchor, "is_a")
              /\ ~previous.safety_flag =>
                    /\ api_last.used_drift
                    /\ trace.vector_domain # previous.vector_domain
                    /\ trace.concept_path # previous.concept_path
                    /\ \E attractor \in Range(ATTRACTORS[trace.vector_domain]) \cup {None},
                          n \in 8..10 :
                          trace.concept_path
                             = Plan(anchor, trace.vector_domain, FALSE, <<>>, <<>>,
                                    attractor, n).concept_path

\* a deepen answered for a trace that is not safety-flagged: the new path starts at the
\* anchor made of the previous path's last two nodes
C32_Witness ==
    /\ api_last.op = "deepen"
    /\ api_last.status_code = 200
    /\ api_last.used_drift
    /\ ~GetTrace(store, api_last.request.trace_id).safety_flag
    /\ api_last.trace.object_label = GetTrace(store, api_last.request.trace_id).object_label
    /\ Len(api_last.trace.concept_path[1].node) > 2
    /\ api_last.trace.concept_path[1].node[2] = " / "

\* C9: choose_domain(previous = d) cannot return d, whatever the dark window holds;
\* and the trace deepen stores for a trace that is not safety-flagged has a domain
\* other than that trace's domain
C9_NoImmediateRepeat ==
    /\ \A d \in VectorDomain : d \notin ChooseDomain(d, recent_dark)
    /\ (api_last.op = "deepen" /\ api_last.status_code = 200) =>
          LET previous == GetTrace(store, api_last.request.trace_id)
              trace == GetTrace(store, api_last.trace_id)
          IN ~previous.safety_flag => trace.vector_domain # previous.vector_domain

\* a deepen answered for a dark trace, with the dark weight damped
C9_Witness ==
    /\ api_last.op = "deepen"
    /\ api_last.status_code = 200
    /\ api_last.used_drift
    /\ GetTrace(store, api_last.request.trace_id).vector_domain = "MYSTERIOUS_EVENTS"
    /\ ~GetTrace(store, api_last.request.trace_id).safety_flag
    /\ DarkRatioExceeded(recent_dark)

=============================================================================
